---------------------------- MODULE Spec2Model ----------------------------
(***************************************************************************)
(* A model of the EVE PI layout tool: the identifier registry (Config),    *)
(* the layout parser (parse_pi_json) and the layout generator              *)
(* (generate_pi_layout).                                                   *)
(*                                                                         *)
(* Python values are modelled structurally.  A scalar is a record          *)
(* [k, n, s]: k is the Python type ("none", "int", "str"), n the integer   *)
(* and s the string it holds.  A dict is a sequence of entries in          *)
(* insertion order with distinct keys; the keys of the registry tables are *)
(* strings, as they are in the JSON store.  Coordinates are kept in        *)
(* hundredths (0.06 is 6), which is exact for the two-decimal values the   *)
(* generator rounds to.                                                    *)
(***************************************************************************)
EXTENDS Integers, Sequences, FiniteSets, TLC

VARIABLES
    config,      \* Config.data: the registry tables
    data,        \* the raw record handed to parse_pi_json
    parsed,      \* what parse_pi_json gave for data
    request,     \* the arguments of generate_pi_layout
    generated,   \* what generate_pi_layout gave for request
    fs,          \* the file system Config.save works on, and what save did last
    query,       \* the arguments of a lookup in the registry
    answer,      \* what the lookup gave for query
    ui,          \* PIViewerApp: where the record came from, the open prompt, the plot
    pc           \* the operation that ran last

vars == <<config, data, parsed, request, generated, fs, query, answer, ui, pc>>

-----------------------------------------------------------------------------
(* Python scalars *)

PyNone == [k |-> "none", n |-> 0, s |-> ""]
PyInt(i) == [k |-> "int", n |-> i, s |-> ""]
PyStr(t) == [k |-> "str", n |-> 0, s |-> t]

\* str(v) for a scalar v
Str(v) == IF v.k = "int" THEN ToString(v.n) ELSE IF v.k = "str" THEN v.s ELSE "None"

\* sorted(list(ids)): Python 3 orders ints among ints and strs among strs, and
\* raises TypeError as soon as it has to compare an int with a str.
SortedRaises(ids) == \E a \in ids, b \in ids : a.k # b.k

-----------------------------------------------------------------------------
(* Dicts: sequences of entries with a key field, in insertion order *)

HasKey(d, key) == \E i \in 1..Len(d) : d[i].key = key

Lookup(d, key) == d[CHOOSE i \in 1..Len(d) : d[i].key = key]

\* d[key] = entry: an existing key keeps its place, a new one goes last
Upsert(d, entry) ==
    IF HasKey(d, entry.key)
    THEN [i \in 1..Len(d) |-> IF d[i].key = entry.key THEN entry ELSE d[i]]
    ELSE Append(d, entry)

\* the marker of a key that a dict entry does not hold
NoKey == "<absent>"

\* e, with v evaluated before it: a loop's state is computed pass by pass, as
\* Python computes it, instead of all at once at the end of the loop
Strict(v, e) == IF v = v THEN e ELSE e

-----------------------------------------------------------------------------
(* Config: the registry's lookups *)

\* Config.DEFAULT_LABEL_SETTINGS: the display preferences (ui_settings,
\* label_display) that __init__ gives a store that holds none
DEFAULT_LABEL_SETTINGS ==
    [show_pin_name |-> TRUE, show_pin_id |-> TRUE,
     show_schematic_name |-> TRUE, show_schematic_id |-> FALSE]

\* get_pin_type with another default category than the "Unknown" the parser
\* tests for
get_pin_type_OtherDefault(cfg, type_id) ==
    LET type_id_str == IF type_id.k # "none" THEN Str(type_id) ELSE "Unknown"
    IN  IF HasKey(cfg.pin_types, type_id_str)
        THEN LET meta == Lookup(cfg.pin_types, type_id_str)
             IN  <<IF meta.category = NoKey THEN "Unknown" ELSE meta.category,
                   IF meta.planet = NoKey THEN "Unknown" ELSE meta.planet>>
        ELSE <<"Unknown Type", "Unknown">>

\* Config.get_pin_type
get_pin_type(cfg, type_id) ==
    LET type_id_str == IF type_id.k # "none" THEN Str(type_id) ELSE "Unknown"
    IN  IF HasKey(cfg.pin_types, type_id_str)
        THEN LET meta == Lookup(cfg.pin_types, type_id_str)
             IN  <<IF meta.category = NoKey THEN "Unknown" ELSE meta.category,
                   IF meta.planet = NoKey THEN "Unknown" ELSE meta.planet>>
        ELSE <<"Unknown", "Unknown">>

\* Config.get_commodity
get_commodity(cfg, commodity_id) ==
    LET commodity_id_str == IF commodity_id.k # "none" THEN Str(commodity_id) ELSE "Unknown"
    IN  IF HasKey(cfg.commodities, commodity_id_str)
        THEN Lookup(cfg.commodities, commodity_id_str).name
        ELSE "Unknown (" \o commodity_id_str \o ")"

\* The placeholder test `f"Unknown ({id})" in name`.  No name of the model
\* holds a placeholder as a proper part, so the part-of test is equality.
HoldsPlaceholder(name, id) == name = "Unknown (" \o Str(id) \o ")"

\* Config.get_schematic: None (PyNone) or the name
get_schematic(cfg, schematic_id) ==
    LET name == get_commodity(cfg, schematic_id)
    IN  IF HoldsPlaceholder(name, schematic_id) THEN PyNone ELSE PyStr(name)

\* Config.get_planet_name
get_planet_name(cfg, planet_id) ==
    LET lookup_id == IF planet_id.k # "none" THEN Str(planet_id) ELSE "0"
        default_name == IF planet_id.k = "none"
                        THEN "Unknown Planet (ID Missing)"
                        ELSE "Unknown Planet (ID: " \o lookup_id \o ")"
    IN  IF HasKey(cfg.planet_types, lookup_id)
        THEN Lookup(cfg.planet_types, lookup_id).name
        ELSE default_name

-----------------------------------------------------------------------------
(* parse_pi_json *)

\* A section of the raw record as data.get("P", []) reads it: k is "absent"
\* when the key is missing, "list" for a list, and otherwise the Python type
\* of the value found ("none", "int", "str", "dict").
ListSection(items) == [k |-> "list", items |-> items]
OtherSection(kind) == [k |-> kind, items |-> <<>>]

\* len(section) inside the f-string of the first logging.info: None and
\* numbers have no len() and raise TypeError; str, dict and list have one.
LenRaises(section) == section.k \in {"none", "int"}

\* the section after data.get(key, []) and the isinstance(..., list) check
AsList(section) == IF section.k = "list" THEN section.items ELSE <<>>

\* What the parser gives: status "ok" with the typed graph, "none" when it
\* returns None, "raise" when an exception leaves it.  pin_index_map is the
\* parser's local map, kept here so that it can be read after the call;
\* entry (in links and routes) is the one-based position of the raw entry
\* the edge was built from (the i + 1 of the parser's log lines).
NoGraph(status) ==
    [status |-> status, pins |-> <<>>, links |-> <<>>, routes |-> <<>>,
     planet_id |-> PyNone, planet_name |-> "",
     unknown_commodity |-> {}, unknown_pin_type |-> {},
     pin_index_map |-> <<>>,
     cmdctr |-> PyNone, diameter |-> PyNone, comment |-> PyNone]

\* the zero-based position itself, in place of the index the map holds
MapGet_Positional(pin_index_map, position) ==
    IF position.k = "int" /\ position.n \in DOMAIN pin_index_map
    THEN PyInt(position.n - 1)
    ELSE PyNone

\* pin_index_map.get(position)
MapGet(pin_index_map, position) ==
    IF position.k = "int" /\ position.n \in DOMAIN pin_index_map
    THEN PyInt(pin_index_map[position.n])
    ELSE PyNone

\* a loop body that numbers a node by the position of its entry
ParsePin_PositionAsIndex(cfg, pin_raw, original_index, st) ==
    IF ~pin_raw.isdict THEN st
    ELSE
    LET pin_type_id == IF pin_raw.T.k = "none"
                       THEN PyStr("Missing_" \o ToString(original_index))
                       ELSE pin_raw.T
        schematic_id == pin_raw.S
        ty == get_pin_type(cfg, pin_type_id)
        category == ty[1]
        schematic_info == IF schematic_id.k # "none"
                          THEN get_schematic(cfg, schematic_id) ELSE PyNone
        current_list_index == Len(st.parsed_pins)
    IN  [parsed_pins |-> Append(st.parsed_pins,
            [index |-> original_index - 1,
             original_index |-> original_index,
             lat |-> pin_raw.La, lon |-> pin_raw.Lo,
             type_id |-> pin_type_id,
             category |-> category,
             planet |-> ty[2],
             schematic_id |-> schematic_id,
             schematic_name |-> schematic_info]),
         unknown_pin_types |->
            IF category = "Unknown"
            THEN st.unknown_pin_types \cup {pin_type_id}
            ELSE st.unknown_pin_types,
         unknown_commodities |->
            IF schematic_id.k # "none" /\ schematic_info.k = "none"
            THEN st.unknown_commodities \cup {schematic_id}
            ELSE st.unknown_commodities,
         pin_index_map |-> (original_index :> current_list_index) @@ st.pin_index_map]

\* One pass of the pins loop (lines 47-101): st holds parsed_pins,
\* unknown_pin_types, unknown_commodities and pin_index_map.
ParsePin(cfg, pin_raw, original_index, st) ==
    IF ~pin_raw.isdict THEN st
    ELSE
    LET pin_type_id == IF pin_raw.T.k = "none"
                       THEN PyStr("Missing_" \o ToString(original_index))
                       ELSE pin_raw.T
        schematic_id == pin_raw.S
        ty == get_pin_type(cfg, pin_type_id)
        category == ty[1]
        schematic_info == IF schematic_id.k # "none"
                          THEN get_schematic(cfg, schematic_id) ELSE PyNone
        current_list_index == Len(st.parsed_pins)
    IN  [parsed_pins |-> Append(st.parsed_pins,
            [index |-> current_list_index,
             original_index |-> original_index,
             lat |-> pin_raw.La, lon |-> pin_raw.Lo,
             type_id |-> pin_type_id,
             category |-> category,
             planet |-> ty[2],
             schematic_id |-> schematic_id,
             schematic_name |-> schematic_info]),
         unknown_pin_types |->
            IF category = "Unknown"
            THEN st.unknown_pin_types \cup {pin_type_id}
            ELSE st.unknown_pin_types,
         unknown_commodities |->
            IF schematic_id.k # "none" /\ schematic_info.k = "none"
            THEN st.unknown_commodities \cup {schematic_id}
            ELSE st.unknown_commodities,
         pin_index_map |-> (original_index :> current_list_index) @@ st.pin_index_map]

RECURSIVE ParsePins(_, _, _, _)
ParsePins(cfg, pins_data, i, st) ==
    IF i > Len(pins_data) THEN st
    ELSE LET next == ParsePin(cfg, pins_data[i], i, st)
         IN  Strict(next, ParsePins(cfg, pins_data, i + 1, next))

\* One pass of the links loop (lines 105-131)
ParseLink(link_raw, entry, pin_index_map, parsed_links) ==
    IF ~link_raw.isdict THEN parsed_links
    ELSE IF link_raw.S.k = "none" \/ link_raw.D.k = "none" THEN parsed_links
    ELSE
    LET source_0_idx == MapGet(pin_index_map, link_raw.S)
        dest_0_idx == MapGet(pin_index_map, link_raw.D)
    IN  IF source_0_idx.k = "none" \/ dest_0_idx.k = "none" THEN parsed_links
        ELSE Append(parsed_links,
                [source |-> source_0_idx.n, target |-> dest_0_idx.n,
                 level |-> link_raw.Lv, entry |-> entry])

RECURSIVE ParseLinks(_, _, _, _)
ParseLinks(links_data, i, pin_index_map, parsed_links) ==
    IF i > Len(links_data) THEN parsed_links
    ELSE LET next == ParseLink(links_data[i], i, pin_index_map, parsed_links)
         IN  Strict(next, ParseLinks(links_data, i + 1, pin_index_map, next))

\* The legacy path of a flow entry: k is "none" (no P), "list", or "other"
PathIsList(path) == path.k = "list"

\* Lines 151-165: the endpoints of a flow entry, S and D first and the path
\* only for the one that is missing.  PyNone: the route is skipped.
RouteSource(route_raw) ==
    IF route_raw.S.k # "none" THEN route_raw.S
    ELSE IF PathIsList(route_raw.P) /\ Len(route_raw.P.items) > 0
         THEN route_raw.P.items[1]
         ELSE PyNone

\* the destination read from the head of the path, as the source is
RouteDest_PathHead(route_raw) ==
    IF route_raw.D.k # "none" THEN route_raw.D
    ELSE IF PathIsList(route_raw.P) /\ Len(route_raw.P.items) > 1
         THEN route_raw.P.items[1]
         ELSE PyNone

RouteDest(route_raw) ==
    IF route_raw.D.k # "none" THEN route_raw.D
    ELSE IF PathIsList(route_raw.P) /\ Len(route_raw.P.items) > 1
         THEN route_raw.P.items[Len(route_raw.P.items)]
         ELSE PyNone

\* the commodity inferred from the destination pin instead of the source pin
RouteCommodity_FromDest(route_raw, source_idx_1based, pin_index_map, parsed_pins) ==
    IF route_raw.T.k # "none" THEN route_raw.T
    ELSE LET dest_pin_0_idx == MapGet(pin_index_map, RouteDest(route_raw))
         IN  IF dest_pin_0_idx.k # "none" /\ dest_pin_0_idx.n < Len(parsed_pins)
             THEN parsed_pins[dest_pin_0_idx.n + 1].schematic_id
             ELSE PyNone

\* Lines 168-185: the commodity id of a flow entry, T first and otherwise the
\* schematic id of the source pin.  PyNone: the route is skipped.
RouteCommodity(route_raw, source_idx_1based, pin_index_map, parsed_pins) ==
    IF route_raw.T.k # "none" THEN route_raw.T
    ELSE LET source_pin_0_idx == MapGet(pin_index_map, source_idx_1based)
         IN  IF source_pin_0_idx.k # "none" /\ source_pin_0_idx.n < Len(parsed_pins)
             THEN parsed_pins[source_pin_0_idx.n + 1].schematic_id
             ELSE PyNone

\* One pass of the routes loop (lines 135-217): st holds parsed_routes and
\* unknown_commodities.
ParseRoute(cfg, route_raw, entry, pin_index_map, parsed_pins, st) ==
    IF ~route_raw.isdict THEN st
    ELSE
    LET source_idx_1based == RouteSource(route_raw)
        dest_idx_1based == RouteDest(route_raw)
    IN  IF source_idx_1based.k = "none" \/ dest_idx_1based.k = "none" THEN st
        ELSE
        LET commodity_id == RouteCommodity(route_raw, source_idx_1based,
                                           pin_index_map, parsed_pins)
            source_0_idx == MapGet(pin_index_map, source_idx_1based)
            dest_0_idx == MapGet(pin_index_map, dest_idx_1based)
            commodity_name == get_commodity(cfg, commodity_id)
        IN  IF commodity_id.k = "none" THEN st
            ELSE IF source_0_idx.k = "none" \/ dest_0_idx.k = "none" THEN st
            ELSE [parsed_routes |-> Append(st.parsed_routes,
                    [source |-> source_0_idx.n, target |-> dest_0_idx.n,
                     commodity_id |-> commodity_id,
                     commodity_name |-> commodity_name,
                     quantity |-> route_raw.Qty, entry |-> entry]),
                  unknown_commodities |->
                    IF HoldsPlaceholder(commodity_name, commodity_id)
                    THEN st.unknown_commodities \cup {commodity_id}
                    ELSE st.unknown_commodities]

RECURSIVE ParseRoutes(_, _, _, _, _, _)
ParseRoutes(cfg, routes_data, i, pin_index_map, parsed_pins, st) ==
    IF i > Len(routes_data) THEN st
    ELSE LET next == ParseRoute(cfg, routes_data[i], i, pin_index_map, parsed_pins, st)
         IN  Strict(next, ParseRoutes(cfg, routes_data, i + 1, pin_index_map,
                                      parsed_pins, next))

\* parse_pi_json(data, config)
parse_pi_json(raw, cfg) ==
    IF ~raw.isdict THEN NoGraph("none")
    ELSE IF LenRaises(raw.P) \/ LenRaises(raw.L) \/ LenRaises(raw.R)
         THEN NoGraph("raise")
    ELSE
    LET pins_data == AsList(raw.P)
        links_data == AsList(raw.L)
        routes_data == AsList(raw.R)
        p == ParsePins(cfg, pins_data, 1,
                 [parsed_pins |-> <<>>, unknown_pin_types |-> {},
                  unknown_commodities |-> {}, pin_index_map |-> <<>>])
        parsed_links == ParseLinks(links_data, 1, p.pin_index_map, <<>>)
        r == ParseRoutes(cfg, routes_data, 1, p.pin_index_map, p.parsed_pins,
                 [parsed_routes |-> <<>>, unknown_commodities |-> p.unknown_commodities])
    IN  IF SortedRaises(r.unknown_commodities) \/ SortedRaises(p.unknown_pin_types)
        THEN NoGraph("raise")
        ELSE [status |-> "ok",
              pins |-> p.parsed_pins,
              links |-> parsed_links,
              routes |-> r.parsed_routes,
              planet_id |-> raw.Pln,
              planet_name |-> get_planet_name(cfg, raw.Pln),
              unknown_commodity |-> r.unknown_commodities,
              unknown_pin_type |-> p.unknown_pin_types,
              pin_index_map |-> p.pin_index_map,
              cmdctr |-> raw.CmdCtrLv, diameter |-> raw.Diam, comment |-> raw.Cmt]

-----------------------------------------------------------------------------
(* The inputs of the parser's specification *)

\* bounds of the raw records: placement entries, and connectivity plus flow
\* entries together
MaxPins == 2
MaxEdges == 1

SeqsUpTo(S, n) == UNION {[1..k -> S] : k \in 0..n}

\* A registry with one placement type, one commodity and one planet type,
\* and the registry of the spec's scenario: one commodity, nothing else.
BarrenRegistry ==
    [pin_types |-> <<[key |-> "2541", category |-> "Storage Facility", planet |-> "Barren"]>>,
     commodities |-> <<[key |-> "4096", name |-> "Water"]>>,
     planet_types |-> <<[key |-> "2016", name |-> "Barren"]>>,
     ui_settings |-> DEFAULT_LABEL_SETTINGS,
     present |-> {"pin_types", "commodities", "planet_types"}]

WaterRegistry ==
    [pin_types |-> <<>>,
     commodities |-> <<[key |-> "4096", name |-> "Water"]>>,
     planet_types |-> <<>>,
     ui_settings |-> DEFAULT_LABEL_SETTINGS,
     present |-> {"commodities"}]

\* a registry whose entries hold what the lookups give for an id without
\* entry: a placement type of category "Unknown" and a commodity named as
\* the placeholder of its id is (names the resolver lets the user type)
PlaceholderRegistry ==
    [pin_types |-> <<[key |-> "500", category |-> "Unknown", planet |-> "Barren"]>>,
     commodities |-> <<[key |-> "7", name |-> "Unknown (7)"]>>,
     planet_types |-> <<>>,
     ui_settings |-> DEFAULT_LABEL_SETTINGS,
     present |-> {"pin_types", "commodities"}]

ParseRegistries == {BarrenRegistry, WaterRegistry, PlaceholderRegistry}

RawPin(t, s) == [isdict |-> TRUE, T |-> t, S |-> s, La |-> 0, Lo |-> 0]
NotADict == [isdict |-> FALSE, T |-> PyNone, S |-> PyNone, La |-> 0, Lo |-> 0]

\* placement entries: not a record; no type id; an unknown and a known type
\* id; a known and an unknown schematic
PinEntries ==
    {NotADict,
     RawPin(PyNone, PyNone), RawPin(PyNone, PyInt(7)),
     RawPin(PyInt(500), PyNone),
     RawPin(PyInt(2541), PyNone), RawPin(PyInt(2541), PyInt(4096)),
     RawPin(PyInt(2541), PyInt(7))}

RawLink(s, d) == [isdict |-> TRUE, S |-> s, D |-> d, Lv |-> 0]
NotALink == [isdict |-> FALSE, S |-> PyNone, D |-> PyNone, Lv |-> 0]

LinkEntries ==
    {NotALink, RawLink(PyInt(1), PyInt(2)), RawLink(PyInt(2), PyInt(1)),
     RawLink(PyInt(1), PyNone), RawLink(PyInt(1), PyInt(4)),
     RawLink(PyInt(2), PyInt(2))}

NoPath == [k |-> "none", items |-> <<>>]
Path(items) == [k |-> "list", items |-> items]
RawRoute(path, s, d, t) ==
    [isdict |-> TRUE, P |-> path, S |-> s, D |-> d, T |-> t, Qty |-> 0]
NotARoute ==
    [isdict |-> FALSE, P |-> NoPath, S |-> PyNone, D |-> PyNone, T |-> PyNone, Qty |-> 0]

\* flow entries: with S and D, with the legacy path only, with both (the path
\* reversed), each with and without a commodity id; and entries that lack an
\* endpoint or name a position outside P
RouteEntries ==
    {NotARoute}
    \cup {RawRoute(NoPath, PyInt(1), PyInt(2), t) : t \in {PyNone, PyInt(4096), PyInt(7)}}
    \cup {RawRoute(Path(<<PyInt(2), PyInt(1)>>), PyNone, PyNone, t) :
            t \in {PyNone, PyInt(4096), PyInt(7)}}
    \cup {RawRoute(Path(<<PyInt(2), PyInt(1)>>), PyInt(1), PyInt(2), t) :
            t \in {PyNone, PyInt(4096), PyInt(7)}}
    \cup {RawRoute(Path(<<PyInt(1)>>), PyNone, PyNone, PyInt(4096)),
          RawRoute(Path(<<PyInt(2), PyInt(3), PyInt(1)>>), PyNone, PyInt(2), PyNone),
          RawRoute(Path(<<PyInt(1), PyInt(3), PyInt(2)>>), PyNone, PyNone, PyInt(4096)),
          RawRoute(NoPath, PyNone, PyNone, PyInt(4096)),
          RawRoute(NoPath, PyInt(4), PyInt(1), PyInt(4096))}

\* the kinds of a section that is present but is no list
NonListKinds == {"none", "int", "str", "dict"}

PinSections ==
    {ListSection(s) : s \in SeqsUpTo(PinEntries, MaxPins)}
    \cup {OtherSection(kd) : kd \in NonListKinds \cup {"absent"}}

\* L and R: lists of at most MaxEdges entries together, a section that is
\* no list counting as one entry
EdgeSections ==
    {<<ListSection(l), ListSection(r)>> :
        <<l, r>> \in {lr \in SeqsUpTo(LinkEntries, MaxEdges) \X SeqsUpTo(RouteEntries, MaxEdges) :
                        Len(lr[1]) + Len(lr[2]) <= MaxEdges}}
    \cup {<<OtherSection(kd), ListSection(r)>> :
            kd \in NonListKinds \cup {"absent"}, r \in SeqsUpTo(RouteEntries, MaxEdges - 1)}
    \cup {<<ListSection(l), OtherSection(kd)>> :
            kd \in NonListKinds \cup {"absent"}, l \in SeqsUpTo(LinkEntries, MaxEdges - 1)}

RawRecord(p, l, r) ==
    [isdict |-> TRUE, P |-> p, L |-> l, R |-> r, Pln |-> PyInt(2016),
     CmdCtrLv |-> PyInt(5), Diam |-> PyInt(100000), Cmt |-> PyStr("")]

\* an input that is no record at all (a list, a number, null)
NotARecord ==
    [isdict |-> FALSE, P |-> OtherSection("absent"), L |-> OtherSection("absent"),
     R |-> OtherSection("absent"), Pln |-> PyNone,
     CmdCtrLv |-> PyNone, Diam |-> PyNone, Cmt |-> PyNone]

RawInputs ==
    {NotARecord} \cup {RawRecord(p, e[1], e[2]) : p \in PinSections, e \in EdgeSections}

NoRequest == [counts |-> <<>>, storage_type_id |-> PyNone, launchpad_type_id |-> PyNone,
              production_data |-> <<>>]
NoRecord == [status |-> "idle", error |-> "", record |-> NotARecord]

\* the file system of a specification that never saves
NoDisk == [file |-> "<no file>"]

\* the lookup of a specification that makes none
NoQuery == [category |-> "", planet |-> ""]
NoAnswer == [k |-> "idle", n |-> 0, s |-> ""]

\* the application of a specification that shows nothing
NoUi == [source |-> "none"]

-----------------------------------------------------------------------------
(* The parser's specification: a registry, a raw record, one call *)

InitParse ==
    /\ config \in ParseRegistries
    /\ data \in RawInputs
    /\ parsed = NoGraph("idle")
    /\ request = NoRequest
    /\ generated = NoRecord
    /\ query = NoQuery
    /\ answer = NoAnswer
    /\ ui = NoUi
    /\ fs = NoDisk
    /\ pc = "start"

Parse ==
    /\ pc = "start"
    /\ parsed' = parse_pi_json(data, config)
    /\ pc' = "parsed"
    /\ UNCHANGED <<config, data, request, generated, fs, query, answer, ui>>

NextParse == Parse

SpecParse == InitParse /\ [][NextParse]_vars

-----------------------------------------------------------------------------
(* Claims about the parser, checked under SpecParse *)

Returned == pc = "parsed" /\ parsed.status = "ok"

\* the three sections are lists, or are missing
WellShaped(raw) ==
    /\ raw.P.k \in {"list", "absent"}
    /\ raw.L.k \in {"list", "absent"}
    /\ raw.R.k \in {"list", "absent"}

\* the parsed node of the placement entry at one-based position i, as a set
NodesAt(i) == {j \in 1..Len(parsed.pins) : parsed.pins[j].original_index = i}

\* C1: for an input that is a record, parse_pi_json returns a typed graph and
\* never raises, whatever missing or unknown identifiers the record holds,
\* and it returns the failure value only for an input that is no record.
\* (Stated for records whose sections are lists: the others are C2's.)
C1_ParseNeverRaises ==
    pc = "parsed" =>
        /\ (parsed.status = "none" <=> ~data.isdict)
        /\ (data.isdict /\ WellShaped(data) => parsed.status = "ok")

\* the record with every section that is no list replaced by an empty list
WithEmptySections(raw) ==
    [raw EXCEPT !.P = ListSection(AsList(raw.P)),
                !.L = ListSection(AsList(raw.L)),
                !.R = ListSection(AsList(raw.R))]

\* C2: a section P, L or R that is present but is no list is treated as an
\* empty sequence: the parser gives for the record what it gives for the
\* record with that section empty, and does not raise because of it.
C2_NonListSectionIsEmpty ==
    (pc = "parsed" /\ data.isdict /\ ~WellShaped(data)) =>
        parsed = parse_pi_json(WithEmptySections(data), config)

\* C3: in a returned graph, a placement entry whose declared type id has no
\* entry in the placement-type table has a node of category "Unknown" and its
\* type id is in the unresolved-placement-type set; and every member of the
\* unresolved-commodity set is the schematic id of a node that has one or the
\* commodity of a route, so a node without schematic adds nothing to it.
C3_UnknownPinType ==
    Returned =>
        /\ \A i \in 1..Len(AsList(data.P)) :
              LET e == AsList(data.P)[i]
              IN  (e.isdict /\ e.T.k # "none" /\ ~HasKey(config.pin_types, Str(e.T)))
                  => /\ NodesAt(i) # {}
                     /\ \A j \in NodesAt(i) :
                            /\ parsed.pins[j].category = "Unknown"
                            /\ parsed.pins[j].type_id = e.T
                     /\ e.T \in parsed.unknown_pin_type
        /\ \A c \in parsed.unknown_commodity :
              /\ c.k # "none"
              /\ \/ \E j \in 1..Len(parsed.pins) : parsed.pins[j].schematic_id = c
                 \/ \E j \in 1..Len(parsed.routes) : parsed.routes[j].commodity_id = c

\* The spec's scenario: a registry with one commodity and no placement types,
\* one placement entry of type 500 without schematic.
C3_Witness ==
    /\ Returned
    /\ config = WaterRegistry
    /\ data.P = ListSection(<<RawPin(PyInt(500), PyNone)>>)
    /\ Len(parsed.pins) = 1
    /\ parsed.pins[1].category = "Unknown"
    /\ parsed.unknown_pin_type = {PyInt(500)}
    /\ parsed.unknown_commodity = {}

\* the original position of the node a parsed edge end points at
OriginalOf(idx) == parsed.pins[idx + 1].original_index

\* position v names a placement entry that is a record
NamesPin(v) ==
    /\ v.k = "int"
    /\ v.n \in 1..Len(AsList(data.P))
    /\ AsList(data.P)[v.n].isdict

PathOnly(e) ==
    /\ e.isdict /\ e.S.k = "none" /\ e.D.k = "none"
    /\ e.P.k = "list" /\ Len(e.P.items) >= 2

\* C4: a parsed route whose flow entry has no S and no D and a legacy path of
\* at least two elements runs from the node at position P[first] to the node
\* at position P[last], and such an entry is parsed when it has a commodity
\* id and both positions name placement records; an S or a D that is present
\* is the endpoint whatever the path says.
C4_LegacyPathEndpoints ==
    Returned =>
        /\ \A j \in 1..Len(parsed.routes) :
              LET r == parsed.routes[j]
                  e == AsList(data.R)[r.entry]
              IN  /\ r.source \in 0..(Len(parsed.pins) - 1)
                  /\ r.target \in 0..(Len(parsed.pins) - 1)
                  /\ PathOnly(e) =>
                        /\ OriginalOf(r.source) = e.P.items[1].n
                        /\ OriginalOf(r.target) = e.P.items[Len(e.P.items)].n
                  /\ e.S.k # "none" => OriginalOf(r.source) = e.S.n
                  /\ e.D.k # "none" => OriginalOf(r.target) = e.D.n
        /\ \A i \in 1..Len(AsList(data.R)) :
              LET e == AsList(data.R)[i]
              IN  (/\ PathOnly(e) /\ e.T.k # "none"
                   /\ NamesPin(e.P.items[1]) /\ NamesPin(e.P.items[Len(e.P.items)]))
                  => \E j \in 1..Len(parsed.routes) : parsed.routes[j].entry = i

\* a route taken from a path of three positions, and one whose S and D
\* disagree with its path
C4_Witness ==
    /\ Returned
    /\ \E j \in 1..Len(parsed.routes) :
          LET e == AsList(data.R)[parsed.routes[j].entry]
          IN  /\ PathOnly(e)
              /\ Len(e.P.items) = 3
              /\ parsed.routes[j].source = 0
              /\ parsed.routes[j].target = 1

\* C5: a parsed route whose flow entry has no commodity id T carries the
\* schematic id of its source node, which that node has; so an entry without
\* T whose source has no schematic, or maps to no node, is not in the result;
\* and an entry without T is parsed when its source has a schematic and its
\* destination names a placement record.
C5_InferredCommodity ==
    Returned =>
        /\ \A j \in 1..Len(parsed.routes) :
              LET r == parsed.routes[j]
                  e == AsList(data.R)[r.entry]
              IN  e.T.k = "none" =>
                    /\ parsed.pins[r.source + 1].schematic_id.k # "none"
                    /\ r.commodity_id = parsed.pins[r.source + 1].schematic_id
        /\ \A i \in 1..Len(AsList(data.R)) :
              LET e == AsList(data.R)[i]
                  src == RouteSource(e)
                  dst == RouteDest(e)
              IN  (e.isdict /\ e.T.k = "none" /\ NamesPin(src) /\ NamesPin(dst))
                  => ((\E j \in 1..Len(parsed.routes) : parsed.routes[j].entry = i)
                      <=> AsList(data.P)[src.n].S.k # "none")

\* one state with an inferred commodity, one with a route dropped because its
\* source has no schematic
C5_Witness ==
    /\ Returned
    /\ Len(AsList(data.R)) = 1
    /\ AsList(data.R)[1].isdict
    /\ AsList(data.R)[1].T.k = "none"
    /\ Len(parsed.routes) = 1
    /\ parsed.routes[1].commodity_id = PyInt(7)
    /\ parsed.unknown_commodity = {PyInt(7)}

-----------------------------------------------------------------------------
(* generator.py: constants and the fixed geometry, in hundredths *)

DEFAULT_PLANET_ID == 2016
DEFAULT_CMD_CTR_LVL == 5
DEFAULT_LINK_LEVEL == 5
DEFAULT_ROUTE_QTY == 3000

TIER_TO_FACTORY_CATEGORY ==
    (1 :> "Basic Industrial Facility") @@ (2 :> "Advanced Industrial Facility")
    @@ (3 :> "Advanced Industrial Facility") @@ (4 :> "High-Tech Industrial Facility")

ST_X == 0
ST_Y == 0
LP_X == 0
LP_Y == 8
ROW_V_SPACING == 6
COL_H_SPACING == 6
SIDE_OFFSET == 5
NUM_ROWS == 3
NUM_COLS_LEFT == 4
NUM_COLS_RIGHT == 3
TOTAL_FACTORY_SLOTS == NUM_ROWS * (NUM_COLS_LEFT + NUM_COLS_RIGHT)

Reversed(s) == [i \in 1..Len(s) |-> s[Len(s) + 1 - i]]

factory_y_coords == <<ST_Y + ROW_V_SPACING, ST_Y, ST_Y - ROW_V_SPACING>>
factory_x_coords_left == [i \in 1..NUM_COLS_LEFT |-> ST_X - SIDE_OFFSET - (i - 1) * COL_H_SPACING]
factory_x_coords_right == [i \in 1..NUM_COLS_RIGHT |-> ST_X + SIDE_OFFSET + (i - 1) * COL_H_SPACING]

\* FACTORY_SLOTS_BY_ROW[r]: the slots <<x, y>> of row r (rows from 1 here),
\* the reversed left block and then the right block
FACTORY_SLOTS_BY_ROW ==
    [r \in 1..NUM_ROWS |->
        [c \in 1..(NUM_COLS_LEFT + NUM_COLS_RIGHT) |->
            <<(Reversed(factory_x_coords_left) \o factory_x_coords_right)[c],
              factory_y_coords[r]>>]]

-----------------------------------------------------------------------------
(* Config.get_pin_type_id_by_category *)

\* the ids the model's registries use as keys: int(id_str) is the inverse of
\* str() on them
RegistryIds == {0, 1, 2, 7, 500, 2016, 2017, 2268, 2389, 2473, 2474, 2475, 2481, 2541, 2544, 4096, 9832}

IntOf(id_str) == CHOOSE n \in RegistryIds : ToString(n) = id_str

\* int(id_str) gives a number: the key is a decimal string.  Of any other
\* key, such as the 'Missing_1' that the parser makes up, int raises ValueError.
IsDecimal(id_str) == \E n \in RegistryIds : ToString(n) = id_str

\* an exception leaves the call
Raises == [k |-> "raise", n |-> 0, s |-> "ValueError"]

\* the id of the first entry of the table, in its order, among those at the
\* positions hits, as return int(type_id_str) gives it; None when there is
\* none
FirstOf(table, hits) ==
    IF hits = {} THEN PyNone
    ELSE LET type_id_str == table[CHOOSE i \in hits : \A j \in hits : i <= j].key
         IN  IF IsDecimal(type_id_str) THEN PyInt(IntOf(type_id_str)) ELSE Raises

get_pin_type_id_by_category(cfg, category_name, planet_name) ==
    LET pin_types == cfg.pin_types
        Of(planets) == {i \in 1..Len(pin_types) :
                          /\ pin_types[i].category = category_name
                          /\ pin_types[i].planet \in planets}
        exact == IF planet_name # "Generic" /\ planet_name # "Unknown"
                 THEN Of({planet_name}) ELSE {}
        generic == Of({"Generic", NoKey})
        unknown == Of({"Unknown", NoKey})
    IN  IF exact # {} THEN FirstOf(pin_types, exact)
        ELSE IF generic # {} THEN FirstOf(pin_types, generic)
        ELSE FirstOf(pin_types, unknown)

-----------------------------------------------------------------------------
(* load_production_data *)

\* The name -> id dict {name: int(id_str) for id_str, name in commodities}:
\* of two ids with one name the later entry wins.  PyNone: no such name.
commodity_name_to_id(cfg, name) ==
    LET hits == {i \in 1..Len(cfg.commodities) : cfg.commodities[i].name = name}
    IN  IF hits = {} THEN PyNone
        ELSE PyInt(IntOf(cfg.commodities[CHOOSE i \in hits : \A j \in hits : j <= i].key))

\* The rows of the recipe sources P1.csv .. P4.csv after the header, in the
\* order they are read: the input cells (a blank cell is ""), the output
\* name, and the tier of the file.
RecipeRows ==
    << [inputs |-> <<"">>, output |-> "Water", tier |-> 1],
       [inputs |-> <<"Ionic Solutions">>, output |-> "Electrolytes", tier |-> 1],
       [inputs |-> <<"Water", "Electrolytes">>, output |-> "Coolant", tier |-> 2] >>

\* input_names = [n.strip() for n in row[:num_inputs] if n.strip()]
NonBlank(names) == SelectSeq(names, LAMBDA n : n # "")

\* a row kept although an input has no id in the registry, the input read as 0
LoadRow_KeepUnresolved(cfg, row, production_data) ==
    LET output_id == commodity_name_to_id(cfg, row.output)
        input_names == NonBlank(row.inputs)
        input_ids == [i \in 1..Len(input_names) |-> commodity_name_to_id(cfg, input_names[i])]
    IN  IF output_id.k = "none" THEN production_data
        ELSE Upsert(production_data,
                [key |-> output_id.n,
                 inputs |-> [i \in 1..Len(input_ids) |-> input_ids[i].n],
                 tier |-> row.tier])

\* One row: dropped when the output or an input has no id in the registry;
\* otherwise production_data[output_id] is set
LoadRow(cfg, row, production_data) ==
    LET output_id == commodity_name_to_id(cfg, row.output)
        input_names == NonBlank(row.inputs)
        input_ids == [i \in 1..Len(input_names) |-> commodity_name_to_id(cfg, input_names[i])]
    IN  IF output_id.k = "none" THEN production_data
        ELSE IF \E i \in 1..Len(input_ids) : input_ids[i].k = "none" THEN production_data
        ELSE Upsert(production_data,
                [key |-> output_id.n,
                 inputs |-> [i \in 1..Len(input_ids) |-> input_ids[i].n],
                 tier |-> row.tier])

RECURSIVE LoadRows(_, _, _, _)
LoadRows(cfg, rows, i, production_data) ==
    IF i > Len(rows) THEN production_data
    ELSE LoadRows(cfg, rows, i + 1, LoadRow(cfg, rows[i], production_data))

\* load_production_data(config): the recipe table; None is the empty table
\* here, which generate_pi_layout refuses in the same way
load_production_data(cfg) == LoadRows(cfg, RecipeRows, 1, <<>>)

-----------------------------------------------------------------------------
(* generate_pi_layout *)

\* truthiness of an id, as `all([storage_type_id, launchpad_type_id])` reads it
Truthy(v) == \/ v.k = "int" /\ v.n # 0
             \/ v.k = "str" /\ v.s # ""

\* planet_types_rev.get(planet_name) of {v: k for k, v in planet_types}: the
\* key of the last entry with that name, "" when there is none
planet_types_rev(cfg, planet_name) ==
    LET hits == {i \in 1..Len(cfg.planet_types) : cfg.planet_types[i].name = planet_name}
    IN  IF hits = {} THEN ""
        ELSE cfg.planet_types[CHOOSE i \in hits : \A j \in hits : j <= i].key

\* One pass of the loop of lines 101-107 over the two anchors
InferStep(cfg, pin_id, st) ==
    IF st.done THEN st
    ELSE LET p_name == get_pin_type(cfg, pin_id)[2]
         IN  IF p_name # "Unknown" /\ p_name # "Generic"
             THEN LET found_id == planet_types_rev(cfg, p_name)
                  IN  IF found_id # ""
                      THEN [planet_id |-> IntOf(found_id), planet_name |-> p_name, done |-> TRUE]
                      ELSE [st EXCEPT !.planet_name = p_name]
             ELSE st

\* lines 100-108: the planet id and the planet name the generator goes on with
InferPlanet(cfg, storage_type_id, launchpad_type_id) ==
    InferStep(cfg, launchpad_type_id,
        InferStep(cfg, storage_type_id,
            [planet_id |-> DEFAULT_PLANET_ID, planet_name |-> "Unknown", done |-> FALSE]))

\* factory_type_ids[cat]
FactoryTypeId(cfg, cat, planet_name) == get_pin_type_id_by_category(cfg, cat, planet_name)

FactoryCategories == {TIER_TO_FACTORY_CATEGORY[tier] : tier \in DOMAIN TIER_TO_FACTORY_CATEGORY}

\* schematic_list_flat: each name repeated count times, in the order of the
\* mapping ([name] * count is empty for a count of 0)
RECURSIVE Flatten(_)
Flatten(counts) ==
    IF counts = <<>> THEN <<>>
    ELSE [i \in 1..counts[1].count |-> counts[1].name] \o Flatten(Tail(counts))

RECURSIVE SumCounts(_)
SumCounts(counts) ==
    IF counts = <<>> THEN 0 ELSE counts[1].count + SumCounts(Tail(counts))

\* a placement entry with latitude and longitude exchanged
GenPin_Transposed(t, s, la, lo) == [isdict |-> TRUE, T |-> t, S |-> s, La |-> lo, Lo |-> la]

GenPin(t, s, la, lo) == [isdict |-> TRUE, T |-> t, S |-> s, La |-> la, Lo |-> lo]

\* the placement that stops at a unit without recipe and keeps what it placed
RECURSIVE PlaceFactories_KeepPlaced(_, _, _, _, _, _, _)
PlaceFactories_KeepPlaced(cfg, production_data, flat, planet_name, r, c, st) ==
    IF r > NUM_ROWS THEN st
    ELSE IF c > Len(FACTORY_SLOTS_BY_ROW[r])
         THEN IF st.factory_slot_counter >= Len(flat) THEN st
              ELSE PlaceFactories_KeepPlaced(cfg, production_data, flat, planet_name, r + 1, 1, st)
    ELSE IF st.factory_slot_counter >= Len(flat) THEN st
    ELSE
    LET schematic_name == flat[st.factory_slot_counter + 1]
        schematic_id == commodity_name_to_id(cfg, schematic_name)
        has_recipe == schematic_id.k = "int" /\ HasKey(production_data, schematic_id.n)
    IN  IF ~has_recipe THEN st
        ELSE
        LET recipe_info == Lookup(production_data, schematic_id.n)
            factory_category == TIER_TO_FACTORY_CATEGORY[recipe_info.tier]
            current_factory_type_id == FactoryTypeId(cfg, factory_category, planet_name)
            slot == FACTORY_SLOTS_BY_ROW[r][c]
            factory_index_0based == Len(st.pins)
            next ==
                [pins |-> Append(st.pins,
                            GenPin(current_factory_type_id, schematic_id, slot[2], slot[1])),
                 factory_indices_by_row |->
                    [st.factory_indices_by_row EXCEPT ![r] = Append(@, factory_index_0based)],
                 factory_assignments |->
                    (factory_index_0based :> schematic_id.n) @@ st.factory_assignments,
                 factory_slot_counter |-> st.factory_slot_counter + 1,
                 failed |-> FALSE]
        IN  Strict(next, PlaceFactories_KeepPlaced(cfg, production_data, flat, planet_name, r, c + 1, next))

\* The loops of lines 141-174 from slot (r, c) on, rows and columns from 1.
\* st holds pins, factory_indices_by_row, factory_assignments (pin index ->
\* schematic id), factory_slot_counter and failed (the return None of line
\* 153).
RECURSIVE PlaceFactories(_, _, _, _, _, _, _)
PlaceFactories(cfg, production_data, flat, planet_name, r, c, st) ==
    IF r > NUM_ROWS THEN st
    ELSE IF c > Len(FACTORY_SLOTS_BY_ROW[r])
         THEN IF st.factory_slot_counter >= Len(flat) THEN st
              ELSE PlaceFactories(cfg, production_data, flat, planet_name, r + 1, 1, st)
    ELSE IF st.factory_slot_counter >= Len(flat) THEN st
    ELSE
    LET schematic_name == flat[st.factory_slot_counter + 1]
        schematic_id == commodity_name_to_id(cfg, schematic_name)
        has_recipe == schematic_id.k = "int" /\ HasKey(production_data, schematic_id.n)
    IN  IF ~has_recipe THEN [st EXCEPT !.failed = TRUE]
        ELSE
        LET recipe_info == Lookup(production_data, schematic_id.n)
            factory_category == TIER_TO_FACTORY_CATEGORY[recipe_info.tier]
            current_factory_type_id == FactoryTypeId(cfg, factory_category, planet_name)
            slot == FACTORY_SLOTS_BY_ROW[r][c]
            factory_index_0based == Len(st.pins)
            next ==
                [pins |-> Append(st.pins,
                            GenPin(current_factory_type_id, schematic_id, slot[2], slot[1])),
                 factory_indices_by_row |->
                    [st.factory_indices_by_row EXCEPT ![r] = Append(@, factory_index_0based)],
                 factory_assignments |->
                    (factory_index_0based :> schematic_id.n) @@ st.factory_assignments,
                 factory_slot_counter |-> st.factory_slot_counter + 1,
                 failed |-> FALSE]
        IN  Strict(next, PlaceFactories(cfg, production_data, flat, planet_name, r, c + 1, next))

GenLink(s, d) == [isdict |-> TRUE, S |-> PyInt(s), D |-> PyInt(d), Lv |-> DEFAULT_LINK_LEVEL]

\* a row joined to storage by its first factory and not chained
RowLinks_Unchained(row_indices, storage_1_idx) ==
    IF row_indices = <<>> THEN <<>>
    ELSE <<GenLink(row_indices[1] + 1, storage_1_idx)>>

\* lines 181-195 for one row: the chain along the row, then the row's first
\* factory to storage
RowLinks(row_indices, storage_1_idx) ==
    IF row_indices = <<>> THEN <<>>
    ELSE [i \in 1..(Len(row_indices) - 1) |->
            GenLink(row_indices[i] + 1, row_indices[i + 1] + 1)]
         \o <<GenLink(row_indices[1] + 1, storage_1_idx)>>

RECURSIVE AllRowLinks(_, _, _)
AllRowLinks(factory_indices_by_row, r, storage_1_idx) ==
    IF r > NUM_ROWS THEN <<>>
    ELSE RowLinks(factory_indices_by_row[r], storage_1_idx)
         \o AllRowLinks(factory_indices_by_row, r + 1, storage_1_idx)

GenRoute(from, to, commodity) ==
    [isdict |-> TRUE, P |-> Path(<<PyInt(from), PyInt(to)>>),
     S |-> PyNone, D |-> PyNone, T |-> PyInt(commodity), Qty |-> DEFAULT_ROUTE_QTY]

\* the output routed to storage instead of the launchpad
FactoryRoutes_ToStorage(production_data, fac_0_idx, output_schematic_id, storage_1_idx, launchpad_1_idx) ==
    LET fac_1_idx == fac_0_idx + 1
    IN  <<GenRoute(fac_1_idx, storage_1_idx, output_schematic_id)>>
        \o IF HasKey(production_data, output_schematic_id)
           THEN LET input_commodity_ids == Lookup(production_data, output_schematic_id).inputs
                IN  [i \in 1..Len(input_commodity_ids) |->
                        GenRoute(storage_1_idx, fac_1_idx, input_commodity_ids[i])]
           ELSE <<>>

\* lines 206-233 for one factory: its output route, then one input route for
\* each element of the recipe's inputs
FactoryRoutes(production_data, fac_0_idx, output_schematic_id, storage_1_idx, launchpad_1_idx) ==
    LET fac_1_idx == fac_0_idx + 1
    IN  <<GenRoute(fac_1_idx, launchpad_1_idx, output_schematic_id)>>
        \o IF HasKey(production_data, output_schematic_id)
           THEN LET input_commodity_ids == Lookup(production_data, output_schematic_id).inputs
                IN  [i \in 1..Len(input_commodity_ids) |->
                        GenRoute(storage_1_idx, fac_1_idx, input_commodity_ids[i])]
           ELSE <<>>

RECURSIVE AllRoutes(_, _, _, _, _, _)
AllRoutes(production_data, all_factory_indices, i, factory_assignments, storage_1_idx, launchpad_1_idx) ==
    IF i > Len(all_factory_indices) THEN <<>>
    ELSE FactoryRoutes(production_data, all_factory_indices[i],
                       factory_assignments[all_factory_indices[i]],
                       storage_1_idx, launchpad_1_idx)
         \o AllRoutes(production_data, all_factory_indices, i + 1, factory_assignments,
                      storage_1_idx, launchpad_1_idx)

RECURSIVE Concat(_)
Concat(seqs) == IF seqs = <<>> THEN <<>> ELSE seqs[1] \o Concat(Tail(seqs))

\* a request that fills every slot refused as well
OverCapacity_Inclusive(total_factories_requested) == total_factories_requested >= TOTAL_FACTORY_SLOTS

\* the request exceeds the slots (line 128)
OverCapacity(total_factories_requested) == total_factories_requested > TOTAL_FACTORY_SLOTS

\* What the generator gives: status "ok" with the record that json.loads
\* reads back from the returned string, or "none" (return None) with the
\* error it logged before returning
Failed(error) == [status |-> "none", error |-> error, record |-> NotARecord]

\* an exception leaves generate_pi_layout (the ValueError of a category
\* search, line 110)
Raised == [status |-> "raise", error |-> "", record |-> NotARecord]

\* the logging.error of lines 89, 90, 113, 129 and 151
NoProductionData == "Gen failed: Production data missing."
NoAnchorType == "Gen failed: Missing ST/LP type ID."
NoFactoryCategory == "Gen failed: Config missing factory categories"
TooManyFactories == "Gen failed: Requested factories > slots"
NotProducible == "Gen failed: Schematic is not producible factory output."

generate_pi_layout(schematic_counts, storage_type_id, launchpad_type_id, cfg, production_data) ==
    IF production_data = <<>> THEN Failed(NoProductionData)
    ELSE IF ~(Truthy(storage_type_id) /\ Truthy(launchpad_type_id)) THEN Failed(NoAnchorType)
    ELSE
    LET planet == InferPlanet(cfg, storage_type_id, launchpad_type_id)
    IN  IF \E cat \in FactoryCategories : FactoryTypeId(cfg, cat, planet.planet_name).k = "raise"
        THEN Raised
        ELSE IF \E cat \in FactoryCategories : FactoryTypeId(cfg, cat, planet.planet_name).k = "none"
        THEN Failed(NoFactoryCategory)
        ELSE
        LET storage_index_0based == 0
            launchpad_index_0based == 1
            core == <<GenPin(storage_type_id, PyNone, ST_Y, ST_X),
                      GenPin(launchpad_type_id, PyNone, LP_Y, LP_X)>>
        IN  IF OverCapacity(SumCounts(schematic_counts)) THEN Failed(TooManyFactories)
            ELSE
            LET flat == Flatten(schematic_counts)
                placed == PlaceFactories(cfg, production_data, flat, planet.planet_name, 1, 1,
                            [pins |-> core,
                             factory_indices_by_row |-> [r \in 1..NUM_ROWS |-> <<>>],
                             factory_assignments |-> <<>>,
                             factory_slot_counter |-> 0,
                             failed |-> FALSE])
                storage_1_idx == storage_index_0based + 1
                launchpad_1_idx == launchpad_index_0based + 1
            IN  IF placed.failed THEN Failed(NotProducible)
                ELSE
                [status |-> "ok",
                 error |-> "",
                 record |->
                    [isdict |-> TRUE,
                     P |-> ListSection(placed.pins),
                     L |-> ListSection(
                            AllRowLinks(placed.factory_indices_by_row, 1, storage_1_idx)
                            \o <<GenLink(storage_1_idx, launchpad_1_idx)>>),
                     R |-> ListSection(
                            AllRoutes(production_data, Concat(placed.factory_indices_by_row), 1,
                                      placed.factory_assignments, storage_1_idx, launchpad_1_idx)),
                     Pln |-> PyInt(planet.planet_id),
                     CmdCtrLv |-> PyInt(DEFAULT_CMD_CTR_LVL),
                     Diam |-> PyInt(100000),
                     Cmt |-> PyStr("Generated: " \o ToString(placed.factory_slot_counter)
                                   \o " Factories (Row Chain->ST->LP)")]]

-----------------------------------------------------------------------------
(* The generator's specification: a registry, the recipe table loaded from  *)
(* it, one request, and the parse of the record it gave                    *)

\* bound of the units one request asks for
MaxUnits == 22

PinType(key, category, planet) == [key |-> key, category |-> category, planet |-> planet]
Named(key, name) == [key |-> key, name |-> name]

\* every anchor and every tier's facility on the planet Barren; one commodity
\* (Ionic Solutions) without recipe
BarrenFactories ==
    [pin_types |-> <<PinType("2541", "Storage Facility", "Barren"),
                     PinType("2544", "Launchpad", "Barren"),
                     PinType("2473", "Basic Industrial Facility", "Barren"),
                     PinType("2474", "Advanced Industrial Facility", "Barren"),
                     PinType("2475", "High-Tech Industrial Facility", "Barren")>>,
     commodities |-> <<Named("4096", "Water"), Named("2268", "Ionic Solutions"),
                       Named("2389", "Electrolytes"), Named("9832", "Coolant")>>,
     planet_types |-> <<Named("2016", "Barren")>>,
     ui_settings |-> DEFAULT_LABEL_SETTINGS,
     present |-> {"pin_types", "commodities", "planet_types"}]

\* facilities of no particular planet, no anchors; the input of Electrolytes
\* is not a commodity of the registry
GenericFactories ==
    [pin_types |-> <<PinType("2473", "Basic Industrial Facility", "Generic"),
                     PinType("2474", "Advanced Industrial Facility", NoKey),
                     PinType("2475", "High-Tech Industrial Facility", "Unknown")>>,
     commodities |-> <<Named("4096", "Water"), Named("2389", "Electrolytes")>>,
     planet_types |-> <<Named("2016", "Barren")>>,
     ui_settings |-> DEFAULT_LABEL_SETTINGS,
     present |-> {"pin_types", "commodities", "planet_types"}]

\* no facility of the highest tier
NoHighTech ==
    [pin_types |-> <<PinType("2541", "Storage Facility", "Barren"),
                     PinType("2544", "Launchpad", "Barren"),
                     PinType("2473", "Basic Industrial Facility", "Barren"),
                     PinType("2474", "Advanced Industrial Facility", "Barren")>>,
     commodities |-> <<Named("4096", "Water")>>,
     planet_types |-> <<Named("2016", "Barren")>>,
     ui_settings |-> DEFAULT_LABEL_SETTINGS,
     present |-> {"pin_types", "commodities", "planet_types"}]

\* a storage type of a planet the planet-type table does not hold, a
\* launchpad type and facilities of no particular planet
LavaStorage ==
    [pin_types |-> <<PinType("2541", "Storage Facility", "Lava"),
                     PinType("2544", "Launchpad", "Generic"),
                     PinType("2473", "Basic Industrial Facility", "Generic"),
                     PinType("2474", "Advanced Industrial Facility", "Generic"),
                     PinType("2475", "High-Tech Industrial Facility", "Generic")>>,
     commodities |-> <<Named("4096", "Water"), Named("2389", "Electrolytes")>>,
     planet_types |-> <<Named("2016", "Barren")>>,
     ui_settings |-> DEFAULT_LABEL_SETTINGS,
     present |-> {"pin_types", "commodities", "planet_types"}]

GenRegistries == {BarrenFactories, GenericFactories, NoHighTech, LavaStorage}

RequestNames == {"Water", "Electrolytes", "Coolant", "Ionic Solutions"}

\* requested counts: a mapping of at most two names, as the sequence of its
\* items, asking for at most MaxUnits units
RequestedCounts ==
    {<<>>}
    \cup {<<[name |-> a, count |-> n]>> : a \in RequestNames, n \in 0..MaxUnits}
    \cup {<<[name |-> ab[1], count |-> nm[1]], [name |-> ab[2], count |-> nm[2]]>> :
            ab \in {x \in RequestNames \X RequestNames : x[1] # x[2]},
            nm \in {y \in (0..MaxUnits) \X (0..MaxUnits) : y[1] + y[2] <= MaxUnits}}

\* storage and launchpad type ids: the registry's, two it does not know, a
\* storage id of 0, and a storage id it does not know with its launchpad id
AnchorIds ==
    {<<PyInt(2541), PyInt(2544)>>, <<PyInt(1), PyInt(2)>>, <<PyInt(0), PyInt(2544)>>,
     <<PyInt(1), PyInt(2544)>>}

InitGen ==
    /\ config \in GenRegistries
    /\ data = NotARecord
    /\ parsed = NoGraph("idle")
    /\ request = NoRequest
    /\ generated = NoRecord
    /\ query = NoQuery
    /\ answer = NoAnswer
    /\ ui = NoUi
    /\ fs = NoDisk
    /\ pc = "constructed"

LoadProductionData ==
    /\ pc = "constructed"
    /\ request' = [request EXCEPT !.production_data = load_production_data(config)]
    /\ pc' = "loaded"
    /\ UNCHANGED <<config, data, parsed, generated, fs, query, answer, ui>>

\* a generation that enters the storage anchor it was given into the
\* registry, as a storage type of no particular planet
Generate_Registering ==
    /\ pc = "loaded"
    /\ \E counts \in RequestedCounts, ids \in AnchorIds :
          /\ request' = [request EXCEPT !.counts = counts,
                                        !.storage_type_id = ids[1],
                                        !.launchpad_type_id = ids[2]]
          /\ generated' = generate_pi_layout(counts, ids[1], ids[2], config,
                                             request.production_data)
          /\ config' = [config EXCEPT !.pin_types =
                           Upsert(@, PinType(Str(ids[1]), "Storage Facility", "Generic"))]
    /\ pc' = "generated"
    /\ UNCHANGED <<data, parsed, fs, query, answer, ui>>

Generate ==
    /\ pc = "loaded"
    /\ \E counts \in RequestedCounts, ids \in AnchorIds :
          /\ request' = [request EXCEPT !.counts = counts,
                                        !.storage_type_id = ids[1],
                                        !.launchpad_type_id = ids[2]]
          /\ generated' = generate_pi_layout(counts, ids[1], ids[2], config,
                                             request.production_data)
    /\ pc' = "generated"
    /\ UNCHANGED <<config, data, parsed, fs, query, answer, ui>>

\* the returned string read back and parsed with the same registry
ParseGenerated ==
    /\ pc = "generated"
    /\ generated.status = "ok"
    /\ data' = generated.record
    /\ parsed' = parse_pi_json(generated.record, config)
    /\ pc' = "reparsed"
    /\ UNCHANGED <<config, request, generated, fs, query, answer, ui>>

NextGen == LoadProductionData \/ Generate \/ ParseGenerated

SpecGen == InitGen /\ [][NextGen]_vars

-----------------------------------------------------------------------------
(* Claims about the generator, checked under SpecGen *)

\* the generator was called, and gave a record
Generated == pc \in {"generated", "reparsed"}
GaveRecord == Generated /\ generated.status = "ok"

\* the sections of the generated record
GenP == generated.record.P.items
GenR == generated.record.R.items

\* the positions (from 1) of storage, launchpad and the production nodes in P
StoragePos == 1
LaunchpadPos == 2
ProductionNodes == {f \in 1..Len(GenP) : f # StoragePos /\ f # LaunchpadPos}

\* the unit is one the recipe table of the request can make
Producible(name) ==
    LET id == commodity_name_to_id(config, name)
    IN  id.k = "int" /\ HasKey(request.production_data, id.n)

\* the requested units, in the order they are assigned to slots
RequestedUnits == Flatten(request.counts)
UnitsWithoutRecipe == {i \in 1..Len(RequestedUnits) : ~Producible(RequestedUnits[i])}

\* the checks before the capacity check pass: a recipe table, both anchor
\* ids, a facility type for every tier
PassesSetup ==
    /\ request.production_data # <<>>
    /\ Truthy(request.storage_type_id) /\ Truthy(request.launchpad_type_id)
    /\ \A cat \in FactoryCategories :
          FactoryTypeId(config, cat,
              InferPlanet(config, request.storage_type_id,
                          request.launchpad_type_id).planet_name).k # "none"

\* C6: whenever the generator gives a record, parsing that record with the
\* same registry gives a typed graph whose nodes other than the two anchors
\* are as many as the sum of the requested counts, and whose set of
\* unresolved commodities is empty.
C6_RoundTrip ==
    pc = "reparsed" =>
        /\ parsed.status = "ok"
        /\ Cardinality({j \in 1..Len(parsed.pins) :
                parsed.pins[j].original_index \in ProductionNodes})
             = SumCounts(request.counts)
        /\ Len(parsed.pins) = SumCounts(request.counts) + 2
        /\ parsed.unknown_commodity = {}

\* a record of two kinds of production nodes, one of them with inputs, parsed
C6_Witness ==
    /\ pc = "reparsed"
    /\ Len(request.counts) = 2
    /\ \A i \in 1..2 : request.counts[i].count > 0
    /\ SumCounts(request.counts) >= 3
    /\ Len(parsed.routes) > SumCounts(request.counts)
    /\ parsed.unknown_commodity = {}

\* C7: when nothing else stands in the way (the set-up checks pass and every
\* requested unit has a recipe), a request of exactly the slot count, 21
\* units, gives a record, and a request of one more, 22 units, gives no
\* record and the capacity error.
C7_CapacityBoundary ==
    /\ TOTAL_FACTORY_SLOTS = 21
    /\ pc = "generated" /\ PassesSetup /\ UnitsWithoutRecipe = {} =>
          /\ SumCounts(request.counts) = TOTAL_FACTORY_SLOTS =>
                /\ generated.status = "ok"
                /\ Len(GenP) = TOTAL_FACTORY_SLOTS + 2
          /\ SumCounts(request.counts) = TOTAL_FACTORY_SLOTS + 1 =>
                generated = Failed(TooManyFactories)

\* every slot filled, with two kinds of units
C7_Witness ==
    /\ pc = "generated" /\ PassesSetup /\ UnitsWithoutRecipe = {}
    /\ SumCounts(request.counts) = TOTAL_FACTORY_SLOTS
    /\ Len(request.counts) = 2 /\ \A i \in 1..2 : request.counts[i].count > 0
    /\ generated.status = "ok"

\* the routes of the record from position a to position b
RoutesAlong(a, b) == {i \in 1..Len(GenR) : GenR[i].P = Path(<<PyInt(a), PyInt(b)>>)}

\* the inputs of the recipe of the commodity the node at position f makes
InputsOf(f) == Lookup(request.production_data, GenP[f].S.n).inputs

\* C8: in every generated record each production node has exactly one route
\* to the launchpad, carrying the commodity the node makes at the default
\* quantity, and for each input of its recipe exactly one route from storage
\* carrying that input at the same quantity; a node without inputs has no
\* route from storage, and the record has no other route.
C8_RoutesPerFactory ==
    GaveRecord =>
        /\ \A f \in ProductionNodes :
              /\ Cardinality(RoutesAlong(f, LaunchpadPos)) = 1
              /\ \A i \in RoutesAlong(f, LaunchpadPos) :
                    GenR[i].T = GenP[f].S /\ GenR[i].Qty = DEFAULT_ROUTE_QTY
              /\ Cardinality(RoutesAlong(StoragePos, f)) = Len(InputsOf(f))
              /\ \A k \in 1..Len(InputsOf(f)) :
                    Cardinality({i \in RoutesAlong(StoragePos, f) :
                                    GenR[i].T = PyInt(InputsOf(f)[k])}) = 1
              /\ \A i \in RoutesAlong(StoragePos, f) : GenR[i].Qty = DEFAULT_ROUTE_QTY
        /\ \A i \in 1..Len(GenR) :
              \E f \in ProductionNodes :
                  i \in RoutesAlong(f, LaunchpadPos) \cup RoutesAlong(StoragePos, f)
        /\ request.counts = <<[name |-> "Water", count |-> 2]>> =>
              /\ Cardinality(ProductionNodes) = 2
              /\ Cardinality(UNION {RoutesAlong(f, LaunchpadPos) : f \in ProductionNodes}) = 2
              /\ UNION {RoutesAlong(StoragePos, f) : f \in ProductionNodes} = {}

\* a record with a node that has no inputs and a node that has two
C8_Witness ==
    /\ GaveRecord
    /\ \E f \in ProductionNodes : Len(InputsOf(f)) = 0
    /\ \E f \in ProductionNodes : Len(InputsOf(f)) = 2 /\ Cardinality(RoutesAlong(StoragePos, f)) = 2

\* C9: when a requested unit names a commodity without entry in the recipe
\* table the generator gives no record at all, however many units before it
\* have a recipe; if the request got as far as the placement, the error is
\* the one of the unit that cannot be made.
C9_NoRecipeFails ==
    pc = "generated" /\ UnitsWithoutRecipe # {} =>
        /\ generated.status = "none"
        /\ generated.record = NotARecord
        /\ PassesSetup /\ ~OverCapacity(SumCounts(request.counts)) =>
              generated = Failed(NotProducible)

\* the second kind of unit has no recipe, after units of the first were placed
C9_Witness ==
    /\ pc = "generated" /\ PassesSetup
    /\ ~OverCapacity(SumCounts(request.counts))
    /\ UnitsWithoutRecipe # {} /\ 1 \notin UnitsWithoutRecipe /\ 2 \notin UnitsWithoutRecipe
    /\ generated = Failed(NotProducible)

\* The parser and the generator together: a record from outside is parsed,
\* or a record is generated and parsed
InitTool == InitParse \/ InitGen

NextTool == NextParse \/ NextGen

SpecTool == InitTool /\ [][NextTool]_vars

\* C15: a call of generate_pi_layout and a call of parse_pi_json leave the
\* registry as it was: the three tables, the tables the store holds, and
\* the display preferences.
C15_RegistryUnchanged ==
    [][pc' \in {"parsed", "generated", "reparsed"} =>
          /\ config'.pin_types = config.pin_types
          /\ config'.commodities = config.commodities
          /\ config'.planet_types = config.planet_types
          /\ config'.present = config.present
          /\ config'.ui_settings = config.ui_settings]_vars

\* a registry with all its tables, after a generation that gave a record and
\* the parse of that record, which met an id the registry does not hold
C15_Witness ==
    /\ pc = "reparsed"
    /\ generated.status = "ok"
    /\ parsed.status = "ok"
    /\ parsed.unknown_pin_type # {}
    /\ config.pin_types # <<>>
    /\ config.ui_settings = DEFAULT_LABEL_SETTINGS

-----------------------------------------------------------------------------
(* Config: insertions and save *)

\* Config.add_commodity
add_commodity(cfg, id, name) ==
    [cfg EXCEPT !.commodities = Upsert(@, [key |-> Str(id), name |-> name]),
                !.present = @ \cup {"commodities"}]

\* Config.add_pin_type
add_pin_type(cfg, id, category, planet) ==
    [cfg EXCEPT !.pin_types = Upsert(@, [key |-> Str(id), category |-> category,
                                         planet |-> planet]),
                !.present = @ \cup {"pin_types"}]

\* the decimal digits of a key, first digit first
RECURSIVE Digits(_)
Digits(n) == IF n < 10 THEN <<n>> ELSE Append(Digits(n \div 10), n % 10)

\* x < y for two strings of digits as Python compares strings: by the first
\* place where they differ, a proper prefix before its extensions
LexLess(x, y) ==
    \E i \in 1..Len(y) :
        /\ i <= Len(x) + 1
        /\ \A j \in 1..(i - 1) : x[j] = y[j]
        /\ (i = Len(x) + 1 \/ x[i] < y[i])

KeyBefore(a, b) == LexLess(Digits(IntOf(a)), Digits(IntOf(b)))

\* the entries of a table in the order sort_keys=True writes them
SortedByKey(d) ==
    LET Rank(i) == 1 + Cardinality({j \in 1..Len(d) : KeyBefore(d[j].key, d[i].key)})
    IN  [r \in 1..Len(d) |-> d[CHOOSE i \in 1..Len(d) : Rank(i) = r]]

\* the names of the tables, in sorted order: the three of the registry, and
\* the legacy table of a store that was never migrated
SectionOrder == <<"commodities", "pin_types", "planet_types", "schematics">>

\* The content of a file: kind "absent" (no file), "original" (the file the
\* registry was loaded from, as it was found), "partial" (opened for writing
\* and not written to the end) or "dump" with the text json.dump wrote.
\* ui_settings, which __init__ always sets and which neither save nor the
\* insertions change, is not part of the text.
NoFile == [kind |-> "absent", text |-> <<>>]
Original == [kind |-> "original", text |-> <<>>]
Partial == [kind |-> "partial", text |-> <<>>]

\* json.dump(self.data, f, indent=2, sort_keys=True): the tables that data
\* holds, tables and entries in sorted key order
Dump(cfg) ==
    LET names == SelectSeq(SectionOrder, LAMBDA name : name \in cfg.present)
    IN  [kind |-> "dump",
         text |-> [i \in 1..Len(names) |->
                     [key |-> names[i], value |-> SortedByKey(cfg[names[i]])]]]

\* lines 175-177: the setdefault of the three tables
SaveDefaults(cfg) == [cfg EXCEPT !.present = @ \cup {"commodities", "pin_types", "planet_types"}]

\* the dump of the registry as it is before the tables get their defaults
Persisted_BeforeDefaults(cfg) == Dump(cfg)

\* lines 174-180: what the with-block writes to the file
Persisted(cfg) == Dump(SaveDefaults(cfg))

\* What the environment lets succeed in one save
SaveEnvs == [makedirs : BOOLEAN, copy2 : BOOLEAN, open : BOOLEAN, dump : BOOLEAN]

\* a save that writes the file first and makes the backup copy afterwards
save_WriteFirst(cfg, disk, env) ==
    IF ~disk.dir /\ ~env.makedirs
    THEN [data |-> cfg,
          disk |-> [disk EXCEPT !.trace = <<"makedirs">>, !.logged = <<>>, !.raised = TRUE]]
    ELSE
    LET timestamp == disk.now
        made == [disk EXCEPT !.dir = TRUE, !.trace = <<"makedirs">>, !.logged = <<>>,
                             !.raised = FALSE]
        written == IF ~env.open
                   THEN [made EXCEPT !.trace = Append(@, "open"),
                                     !.logged = Append(@, "Failed to save configuration"),
                                     !.raised = TRUE]
                   ELSE IF ~env.dump
                   THEN [made EXCEPT !.file = Partial,
                                     !.trace = @ \o <<"open", "dump">>,
                                     !.logged = Append(@, "Failed to save configuration"),
                                     !.raised = TRUE]
                   ELSE [made EXCEPT !.file = Dump(SaveDefaults(cfg)),
                                     !.trace = @ \o <<"open", "dump">>,
                                     !.logged = Append(@, "Configuration saved successfully")]
        backed == IF written.file # NoFile
                  THEN IF env.copy2
                       THEN [written EXCEPT !.backups[timestamp] = written.file,
                                            !.trace = Append(@, "copy2"),
                                            !.logged = Append(@, "Configuration backup created")]
                       ELSE [written EXCEPT !.trace = Append(@, "copy2"),
                                            !.logged = Append(@, "Failed to create configuration backup")]
                  ELSE [written EXCEPT !.logged = Append(@, "Skipping backup")]
    IN  [data |-> IF env.open THEN SaveDefaults(cfg) ELSE cfg, disk |-> backed]

\* Config.save().  disk holds the file, whether the backup directory exists
\* (dir), the backups by timestamp, the clock in seconds (now), and of the
\* last save: the file operations it did in order (trace), what it logged
\* (logged) and whether it raised.  Gives the registry and the disk after
\* the call.
save(cfg, disk, env) ==
    IF ~disk.dir /\ ~env.makedirs
    THEN [data |-> cfg,
          disk |-> [disk EXCEPT !.trace = <<"makedirs">>, !.logged = <<>>, !.raised = TRUE]]
    ELSE
    LET timestamp == disk.now
        made == [disk EXCEPT !.dir = TRUE, !.trace = <<"makedirs">>, !.logged = <<>>,
                             !.raised = FALSE]
        backed == IF made.file # NoFile
                  THEN IF env.copy2
                       THEN [made EXCEPT !.backups[timestamp] = made.file,
                                         !.trace = Append(@, "copy2"),
                                         !.logged = Append(@, "Configuration backup created")]
                       ELSE [made EXCEPT !.trace = Append(@, "copy2"),
                                         !.logged = Append(@, "Failed to create configuration backup")]
                  ELSE [made EXCEPT !.logged = Append(@, "Skipping backup")]
    IN  IF ~env.open
        THEN [data |-> cfg,
              disk |-> [backed EXCEPT !.trace = Append(@, "open"),
                                      !.logged = Append(@, "Failed to save configuration"),
                                      !.raised = TRUE]]
        ELSE IF ~env.dump
        THEN [data |-> SaveDefaults(cfg),
              disk |-> [backed EXCEPT !.file = Partial,
                                      !.trace = @ \o <<"open", "dump">>,
                                      !.logged = Append(@, "Failed to save configuration"),
                                      !.raised = TRUE]]
        ELSE [data |-> SaveDefaults(cfg),
              disk |-> [backed EXCEPT !.file = Persisted(cfg),
                                      !.trace = @ \o <<"open", "dump">>,
                                      !.logged = Append(@, "Configuration saved successfully")]]

-----------------------------------------------------------------------------
(* The registry's specification: insertions, saves and the passing of time *)

\* bounds: the calls of save, and the seconds the clock counts
MaxSaves == 3
MaxClock == 1

\* what the insertions insert
NewCommodities == {<<PyInt(7), "Ore">>, <<PyInt(4096), "Aqua">>}
NewPinTypes == {<<PyInt(500), "Extractor", "Generic">>}

\* saves counts the calls of save, streak the saves that returned since the
\* registry was last changed or a save last raised
InitRegistry ==
    /\ config \in ParseRegistries
    /\ data = NotARecord
    /\ parsed = NoGraph("idle")
    /\ request = NoRequest
    /\ generated = NoRecord
    /\ query = NoQuery
    /\ answer = NoAnswer
    /\ ui = NoUi
    /\ \E file \in {Original, NoFile} :
          fs = [file |-> file, dir |-> FALSE,
                backups |-> [t \in 0..MaxClock |-> NoFile],
                now |-> 0, trace |-> <<>>, logged |-> <<>>, raised |-> FALSE,
                saves |-> 0, streak |-> 0]
    /\ pc = "ready"

AddCommodity ==
    /\ \E c \in NewCommodities : config' = add_commodity(config, c[1], c[2])
    /\ fs' = [fs EXCEPT !.streak = 0]
    /\ pc' = "add_commodity"
    /\ UNCHANGED <<data, parsed, request, generated, query, answer, ui>>

AddPinType ==
    /\ \E t \in NewPinTypes : config' = add_pin_type(config, t[1], t[2], t[3])
    /\ fs' = [fs EXCEPT !.streak = 0]
    /\ pc' = "add_pin_type"
    /\ UNCHANGED <<data, parsed, request, generated, query, answer, ui>>

Save ==
    /\ fs.saves < MaxSaves
    /\ \E env \in SaveEnvs :
          LET after == save(config, fs, env)
          IN  /\ config' = after.data
              /\ fs' = [after.disk EXCEPT !.saves = @ + 1,
                                          !.streak = IF after.disk.raised THEN 0 ELSE @ + 1]
    /\ pc' = "save"
    /\ UNCHANGED <<data, parsed, request, generated, query, answer, ui>>

\* a second passes
Tick ==
    /\ fs.now < MaxClock
    /\ fs' = [fs EXCEPT !.now = @ + 1]
    /\ UNCHANGED <<config, data, parsed, request, generated, pc, query, answer, ui>>

NextRegistry == AddCommodity \/ AddPinType \/ Save \/ Tick

SpecRegistry == InitRegistry /\ [][NextRegistry]_vars

-----------------------------------------------------------------------------
(* Claims about the registry, checked under SpecRegistry *)

\* C10: a save that returns, made right after another save that returned
\* with no insertion in between, leaves the file with the content the first
\* left, and the registry as it was; the backups alone may change.
C10_SaveTwice ==
    [][(fs.streak >= 1 /\ fs'.saves = fs.saves + 1 /\ ~fs'.raised) =>
          /\ fs'.file = fs.file
          /\ fs'.file = Dump(config')
          /\ config' = config]_vars

\* two saves in a row have returned, the first of a registry that lacked a
\* table, and the second has put the content of the first into a backup
C10_Witness ==
    /\ pc = "save" /\ fs.streak >= 2
    /\ fs.file = Dump(config)
    /\ \E t \in DOMAIN fs.backups : fs.backups[t] = fs.file
    /\ {fs.file.text[k].key : k \in 1..Len(fs.file.text)}
          = {"commodities", "pin_types", "planet_types"}
    /\ config.pin_types = <<>>

\* the step is a call of save
SaveStep == fs'.saves = fs.saves + 1

\* the places of a file operation in the trace of the last save
Places(trace, op) == {i \in 1..Len(trace) : trace[i] = op}

\* the log of the last save holds the message
Logged(disk, message) == \E i \in 1..Len(disk.logged) : disk.logged[i] = message

\* C11: in every save that finds the persisted file, the backup copy comes
\* before the file is opened for writing, never after it; and when the copy
\* was made, the backup stamped with the time of the save holds the content
\* the file had before the save.
C11_BackupBeforeOverwrite ==
    [][(SaveStep /\ fs.file # NoFile) =>
          /\ \A i \in Places(fs'.trace, "open") :
                /\ Places(fs'.trace, "copy2") # {}
                /\ \A j \in Places(fs'.trace, "copy2") : j < i
          /\ fs'.file # fs.file => Places(fs'.trace, "open") # {}
          /\ Logged(fs', "Configuration backup created") =>
                fs'.backups[fs.now] = fs.file]_vars

\* a save has overwritten a file it had written before, and the backup of
\* that second holds the content overwritten, which differs from the new one
C11_Witness ==
    /\ pc = "save" /\ ~fs.raised
    /\ fs.trace = <<"makedirs", "copy2", "open", "dump">>
    /\ Logged(fs, "Configuration backup created")
    /\ fs.file = Dump(config)
    /\ fs.backups[fs.now].kind = "dump"
    /\ fs.backups[fs.now] # fs.file

\* C12: whatever fails in the backup step of a save, the making of the
\* backup directory included, is logged and the file is written all the
\* same; the save raises exactly when writing the file fails.
C12_BackupFailureNotFatal ==
    pc = "save" =>
        /\ Places(fs.trace, "open") # {}
        /\ fs.raised <=> Logged(fs, "Failed to save configuration")
        /\ (Places(fs.trace, "copy2") # {} /\ ~Logged(fs, "Configuration backup created")) =>
              Logged(fs, "Failed to create configuration backup")

-----------------------------------------------------------------------------
(* The category search's specification: a placement-type table, one search *)

\* bound of the entries of the placement-type table
MaxTypes == 2

\* the keys, categories and planets of the entries: a key that the resolver
\* wrote for a placement without type id, and entries that lack a planet
LookupKeys == {"2473", "2481", "Missing_1"}
LookupCategories == {"Basic Industrial Facility", "Storage Facility"}
LookupPlanets == {"Barren", "Generic", "Unknown", NoKey}

LookupEntries ==
    {PinType(key, category, planet) :
        key \in LookupKeys, category \in LookupCategories, planet \in LookupPlanets}

\* tables of at most MaxTypes entries with distinct keys, in insertion order
LookupTables ==
    {t \in SeqsUpTo(LookupEntries, MaxTypes) :
        \A i, j \in 1..Len(t) : t[i].key = t[j].key => i = j}

\* the planets asked for: one of the table, one that is not, and the two
\* that name no particular planet
AskedPlanets == {"Barren", "Lava", "Generic", "Unknown"}

InitLookup ==
    /\ \E t \in LookupTables :
          config = [pin_types |-> t, commodities |-> <<>>, planet_types |-> <<>>,
                    ui_settings |-> DEFAULT_LABEL_SETTINGS,
                    present |-> {"pin_types"}]
    /\ data = NotARecord
    /\ parsed = NoGraph("idle")
    /\ request = NoRequest
    /\ generated = NoRecord
    /\ fs = NoDisk
    /\ query = NoQuery
    /\ answer = NoAnswer
    /\ ui = NoUi
    /\ pc = "start"

Search ==
    /\ pc = "start"
    /\ \E category \in LookupCategories, planet \in AskedPlanets :
          /\ query' = [category |-> category, planet |-> planet]
          /\ answer' = get_pin_type_id_by_category(config, category, planet)
    /\ pc' = "searched"
    /\ UNCHANGED <<config, data, parsed, request, generated, fs, ui>>

NextLookup == Search

SpecLookup == InitLookup /\ [][NextLookup]_vars

-----------------------------------------------------------------------------
(* Claims about the category search, checked under SpecLookup *)

\* the entries of the table with the category asked for and one of the planets
Matching(planets) ==
    {i \in 1..Len(config.pin_types) :
        /\ config.pin_types[i].category = query.category
        /\ config.pin_types[i].planet \in planets}

\* the search gave the id of one of the entries at the positions hits
AnswerAmong(hits) ==
    /\ answer.k = "int"
    /\ \E i \in hits : config.pin_types[i].key = Str(answer)

\* C13: the search gives the id of an entry of the category on the very
\* planet asked for if there is one; else of an entry of the category marked
\* generic if there is one; else of one marked unknown if there is one;
\* else None.  An entry without planet counts as marked generic and as
\* marked unknown, as the search reads it.
C13_SearchOrder ==
    pc = "searched" =>
        LET exact == Matching({query.planet})
            generic == Matching({"Generic", NoKey})
            unknown == Matching({"Unknown", NoKey})
        IN  IF exact # {} THEN AnswerAmong(exact)
            ELSE IF generic # {} THEN AnswerAmong(generic)
            ELSE IF unknown # {} THEN AnswerAmong(unknown)
            ELSE answer = PyNone

-----------------------------------------------------------------------------
(* Config.__init__: the migration of the legacy schematics table *)

\* an entry of the legacy table: id -> {"name": name}; without the key
\* "name" the name is NoKey
Legacy(key, name) == [key |-> key, name |-> name]

\* lines 41-50: one pass of the migration loop
MigrateEntry(commodities, sch) ==
    LET name == sch.name
    IN  IF name # NoKey /\ name # ""
        THEN IF ~HasKey(commodities, sch.key) \/ Lookup(commodities, sch.key).name # name
             THEN Upsert(commodities, [key |-> sch.key, name |-> name])
             ELSE commodities
        ELSE commodities

\* lines 40-50: the migration loop
RECURSIVE MigrateEntries(_, _)
MigrateEntries(commodities, schematics_to_migrate) ==
    IF schematics_to_migrate = <<>> THEN commodities
    ELSE LET next == MigrateEntry(commodities, Head(schematics_to_migrate))
         IN  Strict(next, MigrateEntries(next, Tail(schematics_to_migrate)))

\* lines 35-57 of Config.__init__, on the data json.load gave: the registry
\* and the disk after construction.  The save's exception is caught, so
\* raised tells what the save did, not the constructor.
Config_init(loaded, disk, env) ==
    IF "schematics" \notin loaded.present
    THEN [data |-> loaded, disk |-> disk]
    ELSE LET merged == [loaded EXCEPT
                           !.commodities = MigrateEntries(@, loaded.schematics),
                           !.schematics = <<>>,
                           !.present = (@ \cup {"commodities"}) \ {"schematics"}]
             after == save(merged, disk, env)
         IN  [data |-> after.data,
              disk |-> [after.disk EXCEPT !.logged = Append(@,
                           IF after.disk.raised
                           THEN "Failed to save configuration automatically after migration"
                           ELSE "Configuration saved automatically after migration")]]

-----------------------------------------------------------------------------
(* The constructor's specification: a store is read and migrated *)

\* bound of the entries of the legacy table
MaxLegacy == 2

LegacyKeys == {"7", "500", "2268"}
LegacyNames == {"Water", "Ore", "", NoKey}

\* legacy tables: at most MaxLegacy entries with distinct keys
LegacyTables ==
    {t \in SeqsUpTo({Legacy(key, name) : key \in LegacyKeys, name \in LegacyNames},
                    MaxLegacy) :
        \A i, j \in 1..Len(t) : t[i].key = t[j].key => i = j}

\* the commodity tables of the stores
StoredCommodities ==
    {<<>>, <<Named("7", "Water")>>, <<Named("500", "Aqua"), Named("7", "Water")>>}

\* what json.load gives for the stores: with and without the legacy table,
\* with and without a commodity table
Stores ==
    {[pin_types |-> <<>>, commodities |-> c, planet_types |-> <<>>, schematics |-> t,
      ui_settings |-> DEFAULT_LABEL_SETTINGS,
      present |-> {"pin_types", "planet_types", "schematics"} \cup
                  (IF c = <<>> THEN {} ELSE {"commodities"})] :
        c \in StoredCommodities, t \in LegacyTables}
    \cup
    {[pin_types |-> <<>>, commodities |-> c, planet_types |-> <<>>, schematics |-> <<>>,
      ui_settings |-> DEFAULT_LABEL_SETTINGS,
      present |-> {"pin_types", "planet_types", "commodities"}] : c \in StoredCommodities}

InitLoad ==
    /\ config \in Stores
    /\ data = NotARecord
    /\ parsed = NoGraph("idle")
    /\ request = NoRequest
    /\ generated = NoRecord
    /\ query = NoQuery
    /\ answer = NoAnswer
    /\ ui = NoUi
    /\ fs = [file |-> Original, dir |-> FALSE,
             backups |-> [t \in 0..MaxClock |-> NoFile],
             now |-> 0, trace |-> <<>>, logged |-> <<>>, raised |-> FALSE,
             saves |-> 0, streak |-> 0]
    /\ pc = "json.load"

Load ==
    /\ pc = "json.load"
    /\ \E env \in SaveEnvs :
          LET after == Config_init(config, fs, env)
          IN  /\ config' = after.data
              /\ fs' = after.disk
    /\ pc' = "loaded"
    /\ UNCHANGED <<data, parsed, request, generated, query, answer, ui>>

NextLoad == Load

SpecLoad == InitLoad /\ [][NextLoad]_vars

-----------------------------------------------------------------------------
(* Claims about the constructor, checked under SpecLoad *)

\* the legacy table holds an entry with a name for the key
LegacyName(cfg, key) ==
    \E i \in 1..Len(cfg.schematics) :
        /\ cfg.schematics[i].key = key
        /\ cfg.schematics[i].name \notin {NoKey, ""}

\* C14: the construction from a store with the legacy table leaves a
\* registry in which every legacy entry that has a name (a non-empty one) is
\* in the commodity table under its id with that name, whatever the table
\* held for the id; every other entry of the commodity table is as it was and
\* none came in; the legacy table is gone; and the save was made: unless the
\* write of the file itself failed, the file holds the migrated registry,
\* without legacy table.
C14_Migration ==
    [][(pc = "json.load" /\ "schematics" \in config.present) =>
          /\ \A i \in 1..Len(config.schematics) :
                config.schematics[i].name \notin {NoKey, ""} =>
                    /\ HasKey(config'.commodities, config.schematics[i].key)
                    /\ Lookup(config'.commodities, config.schematics[i].key).name
                           = config.schematics[i].name
          /\ \A i \in 1..Len(config.commodities) :
                ~LegacyName(config, config.commodities[i].key) =>
                    config'.commodities[i] = config.commodities[i]
          /\ \A i \in 1..Len(config'.commodities) :
                \/ LegacyName(config, config'.commodities[i].key)
                \/ (i <= Len(config.commodities)
                      /\ config'.commodities[i] = config.commodities[i])
          /\ "schematics" \notin config'.present
          /\ "commodities" \in config'.present
          /\ fs'.trace # <<>>
          /\ ~Logged(fs', "Failed to save configuration") =>
                /\ fs'.file = Dump(config')
                /\ \A k \in 1..Len(fs'.file.text) : fs'.file.text[k].key # "schematics"]_vars

-----------------------------------------------------------------------------
(* Further claims about the parser, checked under SpecParse *)

\* the placement entries of data, and how many of those before position i
\* are records
Placements == AsList(data.P)

RecordsBefore(i) == Cardinality({h \in 1..(i - 1) : Placements[h].isdict})

\* C16: of a record whose sections are lists, a placement entry that is a
\* record without type id T is not dropped: the parser returns a graph in
\* which the entry has the next internal index (the number of records before
\* it), the map takes its position to that index, its node has the id
\* "Missing_<position>", and that id is in the unresolved-placement-type
\* set; an entry that is no record is not in the map.
C16_MissingTypeKept ==
    (pc = "parsed" /\ data.isdict /\ WellShaped(data)) =>
        \A i \in 1..Len(Placements) :
            LET missing == PyStr("Missing_" \o ToString(i))
                index == RecordsBefore(i)
            IN  /\ (Placements[i].isdict /\ Placements[i].T.k = "none") =>
                      /\ parsed.status = "ok"
                      /\ i \in DOMAIN parsed.pin_index_map
                      /\ parsed.pin_index_map[i] = index
                      /\ Len(parsed.pins) > index
                      /\ parsed.pins[index + 1].index = index
                      /\ parsed.pins[index + 1].original_index = i
                      /\ parsed.pins[index + 1].type_id = missing
                      /\ missing \in parsed.unknown_pin_type
                /\ (~Placements[i].isdict /\ parsed.status = "ok") =>
                      i \notin DOMAIN parsed.pin_index_map

\* the position names a placement entry of P that is a record
Declared(position) ==
    /\ position.k = "int"
    /\ position.n \in 1..Len(Placements)
    /\ Placements[position.n].isdict

\* the edge runs between the nodes found at the positions s and d of P
EndsAt(edge, s, d) ==
    /\ Declared(s)
    /\ Declared(d)
    /\ \E j \in NodesAt(s.n) : edge.source = j - 1 /\ parsed.pins[j].index = j - 1
    /\ \E j \in NodesAt(d.n) : edge.target = j - 1 /\ parsed.pins[j].index = j - 1

\* C17: in a returned graph every connectivity edge and every flow edge
\* runs between the zero-based indices of the nodes found at the one-based
\* positions its entry declares (a flow entry by S and D or by its path),
\* also after skipped placement entries; an entry that declares a position
\* of a skipped placement or of none gives no edge; so every endpoint is an
\* index into the node list.
C17_EdgeEndpoints ==
    Returned =>
        /\ \A k \in 1..Len(parsed.links) :
              LET raw == AsList(data.L)[parsed.links[k].entry]
              IN  /\ EndsAt(parsed.links[k], raw.S, raw.D)
                  /\ parsed.links[k].source \in 0..(Len(parsed.pins) - 1)
                  /\ parsed.links[k].target \in 0..(Len(parsed.pins) - 1)
        /\ \A k \in 1..Len(parsed.routes) :
              LET raw == AsList(data.R)[parsed.routes[k].entry]
              IN  /\ EndsAt(parsed.routes[k], RouteSource(raw), RouteDest(raw))
                  /\ parsed.routes[k].source \in 0..(Len(parsed.pins) - 1)
                  /\ parsed.routes[k].target \in 0..(Len(parsed.pins) - 1)
        /\ \A e \in 1..Len(AsList(data.L)) :
              LET raw == AsList(data.L)[e]
              IN  ~(Declared(raw.S) /\ Declared(raw.D)) =>
                      \A k \in 1..Len(parsed.links) : parsed.links[k].entry # e
        /\ \A e \in 1..Len(AsList(data.R)) :
              LET raw == AsList(data.R)[e]
              IN  ~(Declared(RouteSource(raw)) /\ Declared(RouteDest(raw))) =>
                      \A k \in 1..Len(parsed.routes) : parsed.routes[k].entry # e

\* a graph with an edge to the node of the second placement entry, the first
\* entry having been skipped
C17_Witness ==
    /\ Returned
    /\ Len(Placements) = 2
    /\ ~Placements[1].isdict
    /\ Len(parsed.pins) = 1
    /\ Len(parsed.links) = 1
    /\ parsed.links[1].source = 0
    /\ parsed.links[1].target = 0

\* C18: in a returned graph every id of the unresolved-placement-type set
\* has no entry in the placement-type table, and every id of the
\* unresolved-commodity set has no entry in the commodity table, whatever
\* the entries of the tables hold.
C18_UnresolvedHaveNoEntry ==
    Returned =>
        /\ \A id \in parsed.unknown_pin_type : ~HasKey(config.pin_types, Str(id))
        /\ \A id \in parsed.unknown_commodity : ~HasKey(config.commodities, Str(id))

-----------------------------------------------------------------------------
(* Claims about the generator's geometry and links, checked under SpecGen *)

\* the square of the distance of the point <<x, y>> from the storage anchor
FromStorage(point) ==
    (point[1] - ST_X) * (point[1] - ST_X) + (point[2] - ST_Y) * (point[2] - ST_Y)

\* the places of the two side-blocks in a row's list
LeftBlock == 1..NUM_COLS_LEFT
RightBlock == (NUM_COLS_LEFT + 1)..(NUM_COLS_LEFT + NUM_COLS_RIGHT)

\* C19: the slots of each row, from which every generation places, are
\* listed nearest to the storage anchor first: within the left block and within the right block of a row an
\* earlier slot is never farther from storage than a later one, and the
\* first slot of the row is the nearest of the row.
C19_SlotsNearestFirst ==
    Generated =>
        \A r \in 1..NUM_ROWS :
            LET row == FACTORY_SLOTS_BY_ROW[r]
            IN  /\ \A block \in {LeftBlock, RightBlock} :
                      \A a, b \in block :
                          a < b => FromStorage(row[a]) <= FromStorage(row[b])
                /\ \A c \in 1..Len(row) : FromStorage(row[1]) <= FromStorage(row[c])

\* the connectivity edges of the generated record, the point of a node of
\* P, and the edges that join a production node to storage
GenL == generated.record.L.items

PointOf(f) == <<GenP[f].Lo, GenP[f].La>>

SameRow(f, g) == GenP[f].La = GenP[g].La

StorageEdges ==
    {k \in 1..Len(GenL) :
        GenL[k].D = PyInt(StoragePos) /\ GenL[k].S.n \in ProductionNodes}

\* C20: in a generated record every row with production nodes has one edge
\* that joins it to storage, and that edge starts at the node of the row
\* that is nearest to the storage anchor.
C20_NearestJoinsStorage ==
    GaveRecord =>
        /\ \A f \in ProductionNodes :
              Cardinality({k \in StorageEdges : SameRow(GenL[k].S.n, f)}) = 1
        /\ \A k \in StorageEdges :
              \A g \in ProductionNodes :
                  SameRow(GenL[k].S.n, g) =>
                      FromStorage(PointOf(GenL[k].S.n)) <= FromStorage(PointOf(g))

\* the planet of the anchor's placement type, and whether it is a known
\* planet that is not the generic one
AnchorPlanet(type_id) == get_pin_type(config, type_id)[2]

Resolves(type_id) == AnchorPlanet(type_id) \notin {"Unknown", "Generic"}

\* C21: the planet of a generated record is that of the storage anchor when
\* its type id resolves to a known planet that is not generic, else that of
\* the launchpad anchor when its type id resolves to one, and the fallback
\* planet id only when neither does.
C21_PlanetFromAnchors ==
    GaveRecord =>
        IF Resolves(request.storage_type_id)
        THEN get_planet_name(config, generated.record.Pln)
                = AnchorPlanet(request.storage_type_id)
        ELSE IF Resolves(request.launchpad_type_id)
        THEN get_planet_name(config, generated.record.Pln)
                = AnchorPlanet(request.launchpad_type_id)
        ELSE generated.record.Pln = PyInt(DEFAULT_PLANET_ID)

\* the k-th slot in row-major order, as <<x, y>>
SlotsPerRow == NUM_COLS_LEFT + NUM_COLS_RIGHT

SlotInOrder(k) == FACTORY_SLOTS_BY_ROW[((k - 1) \div SlotsPerRow) + 1][((k - 1) % SlotsPerRow) + 1]

\* the planet name the generator searched the facility types for
InferredPlanet ==
    InferPlanet(config, request.storage_type_id, request.launchpad_type_id).planet_name

\* C22: in a generated record the production nodes are as many as the units
\* of the flattened request, and the node of the k-th unit, which follows
\* the two anchors, lies in the k-th slot in row-major order, has as
\* schematic the registry's id of the unit's commodity, and as type the id
\* the category search gives for the facility category of the recipe's tier
\* on the inferred planet.
C22_UnitsInSlots ==
    GaveRecord =>
        /\ Len(GenP) = Len(RequestedUnits) + 2
        /\ \A k \in 1..Len(RequestedUnits) :
              LET node == GenP[k + 2]
                  id == commodity_name_to_id(config, RequestedUnits[k])
                  tier == Lookup(request.production_data, id.n).tier
              IN  /\ node.S = id
                  /\ node.S.k = "int"
                  /\ node.T = get_pin_type_id_by_category(
                                  config, TIER_TO_FACTORY_CATEGORY[tier], InferredPlanet)
                  /\ node.T.k = "int"
                  /\ <<node.Lo, node.La>> = SlotInOrder(k)

\* a record of more units than a row has slots, of two tiers
C22_Witness ==
    /\ GaveRecord
    /\ Len(RequestedUnits) > SlotsPerRow
    /\ \E k \in ProductionNodes : GenP[k].T = PyInt(2473)
    /\ \E k \in ProductionNodes : GenP[k].T = PyInt(2474)
    /\ GenP[Len(GenP)].La # GenP[3].La

-----------------------------------------------------------------------------
(* The Resolution Workflow: PIViewerApp parses a record, plots it and asks
   the operator, in modal dialogs, for the names of the ids the registry has
   no entry for.  config is self.config_data, data the raw record of the
   file or of the paste, parsed self.last_parsed.  ui holds: origin (how the
   record was given), file (current_file_path is set), prompt (the dialog
   that is open), listed (the ids it shows), planet_id (the one it was given),
   rendered (the graph refresh_plot last drew, status "idle" for a cleared
   plot), first (the first parse of the record), and of the dialog that
   closed last: how it closed (closed), the ids the operator named (chosen)
   and the calls of update_callback it made (callbacks). *)

\* the one element of a set of one: { e(x) : x \in {v} } is e with v computed
\* once, however often e reads x
TheOne(S) == CHOOSE x \in S : TRUE

\* main.py lines 601-605 and 591-599: clear_plot_and_state
clear_plot_and_state(app) ==
    [last_parsed |-> NoGraph("idle"),
     app |-> [app EXCEPT !.file = FALSE, !.rendered = NoGraph("idle"),
                         !.prompt = "none", !.listed = {}]]

\* the branch that opens the commodity dialog and never the other one
commodity_prompt(graph, app) ==
    [last_parsed |-> graph,
     app |-> [app EXCEPT !.prompt = "commodity", !.listed = graph.unknown_commodity,
                         !.planet_id = PyNone]]

\* the branch that opens the dialog of the placement types
pin_type_prompt(graph, app) ==
    [last_parsed |-> graph,
     app |-> [app EXCEPT !.prompt = "pin_type", !.listed = graph.unknown_pin_type,
                         !.planet_id = graph.planet_id]]

\* the dialog of the placement types, opened whatever the commodities are
unknowns_prompt_PinTypesFirst(graph, app) ==
    IF graph.unknown_pin_type # {} THEN pin_type_prompt(graph, app)
    ELSE IF graph.unknown_commodity # {} THEN commodity_prompt(graph, app)
    ELSE [last_parsed |-> graph, app |-> [app EXCEPT !.prompt = "none", !.listed = {}]]

\* main.py lines 385-418 and 521-535: the dialog the unresolved ids of a
\* parse open.  The dialogs are modal and the caller's lists are the ones of
\* its own parse, so no second dialog follows the first in the same call.
unknowns_prompt(graph, app) ==
    IF graph.unknown_commodity # {} THEN commodity_prompt(graph, app)
    ELSE IF graph.unknown_pin_type # {} THEN pin_type_prompt(graph, app)
    ELSE [last_parsed |-> graph, app |-> [app EXCEPT !.prompt = "none", !.listed = {}]]

\* PIViewerApp._process_raw_data: parse, plot, then ask
process_raw_data(raw, cfg, app) ==
    TheOne({IF graph.status # "ok"
            THEN clear_plot_and_state(app)
            ELSE unknowns_prompt(graph, [app EXCEPT !.rendered = graph]) :
            graph \in {parse_pi_json(raw, cfg)}})

\* The typed graph read as a raw record: a dict that has none of the keys
\* P, L, R, Pln, CmdCtrLv, Diam, Cmt
GraphAsRaw(graph) == [NotARecord EXCEPT !.isdict = graph.status = "ok"]

\* PIViewerApp.refresh_plot_after_resolve.  The file of a file-loaded
\* record is still there and holds the same record.
refresh_plot_after_resolve(raw, last_parsed, cfg, app) ==
    IF app.file
    THEN TheOne({IF graph.status # "ok"
                 THEN clear_plot_and_state(app)
                 ELSE IF graph.unknown_commodity # {} \/ graph.unknown_pin_type # {}
                 THEN unknowns_prompt(graph, app)
                 ELSE [last_parsed |-> graph,
                       app |-> [app EXCEPT !.rendered = graph,
                                           !.prompt = "none", !.listed = {}]] :
                 graph \in {parse_pi_json(raw, cfg)}})
    ELSE IF last_parsed.status = "ok"
    THEN TheOne({IF re_parsed_check.status # "ok"
                 THEN clear_plot_and_state(app)
                 ELSE IF re_parsed_check.unknown_commodity # {}
                         \/ re_parsed_check.unknown_pin_type # {}
                 THEN process_raw_data(GraphAsRaw(re_parsed_check), cfg, app)
                 ELSE [last_parsed |-> re_parsed_check,
                       app |-> [app EXCEPT !.rendered = re_parsed_check,
                                           !.prompt = "none", !.listed = {}]] :
                 re_parsed_check \in {parse_pi_json(GraphAsRaw(last_parsed), cfg)}})
    ELSE clear_plot_and_state(app)

\* what a combobox holds when the operator typed or selected nothing
NoSelection == "Select or type"

\* the ids of a set, smallest first: the order of the dialog's rows
RECURSIVE SortedIds(_)
SortedIds(ids) ==
    IF ids = {} THEN <<>>
    ELSE LET least == CHOOSE a \in ids : \A b \in ids : a.n <= b.n
         IN  <<least>> \o SortedIds(ids \ {least})

\* id_editor.py lines 82-94: the writes of apply(), row by row
RECURSIVE WriteChosen(_, _, _, _, _, _)
WriteChosen(cfg, id_type, rows, i, selection, resolved_planet_name) ==
    IF i > Len(rows) THEN cfg
    ELSE LET next == IF id_type = "commodity"
                     THEN add_commodity(cfg, rows[i], selection[rows[i]])
                     ELSE add_pin_type(cfg, rows[i], selection[rows[i]],
                                       resolved_planet_name)
         IN  Strict(next, WriteChosen(next, id_type, rows, i + 1, selection,
                                      resolved_planet_name))

\* an apply() that calls update_callback whether or not the save raised
apply_CallbackAlways(cfg, raw, last_parsed, disk, app, selection, env) ==
    LET ids_to_resolve == SortedIds({id \in app.listed : selection[id] # NoSelection})
        closed == [app EXCEPT !.prompt = "none", !.listed = {}, !.closed = "apply",
                              !.chosen = {id \in app.listed : selection[id] # NoSelection},
                              !.callbacks = 1]
    IN  TheOne({[config |-> after.data, disk |-> after.disk,
                 last_parsed |-> called.last_parsed, app |-> called.app] :
                <<after, called>> \in
                   {<<a, refresh_plot_after_resolve(raw, last_parsed, a.data, closed)>> :
                      a \in {save(WriteChosen(cfg, app.prompt, ids_to_resolve, 1, selection,
                                              get_planet_name(cfg, app.planet_id)),
                                  disk, env)}}})

\* id_editor.py lines 57-120: apply(), with the callback it makes.  selection
\* gives for every listed id what its combobox holds.
apply(cfg, raw, last_parsed, disk, app, selection, env) ==
    LET chosen == {id \in app.listed : selection[id] # NoSelection}
        ids_to_resolve == SortedIds(chosen)
        closed == [app EXCEPT !.prompt = "none", !.listed = {}, !.closed = "apply",
                              !.chosen = chosen, !.callbacks = 0]
    IN  IF chosen = {}
        THEN [config |-> cfg, disk |-> disk, last_parsed |-> last_parsed, app |-> closed]
        ELSE TheOne({IF after.disk.raised
                     THEN [config |-> after.data, disk |-> after.disk,
                           last_parsed |-> last_parsed, app |-> closed]
                     ELSE TheOne({[config |-> after.data, disk |-> after.disk,
                                   last_parsed |-> called.last_parsed,
                                   app |-> called.app] :
                                  called \in {refresh_plot_after_resolve(
                                                 raw, last_parsed, after.data,
                                                 [closed EXCEPT !.callbacks = 1])}}) :
                     after \in {save(WriteChosen(cfg, app.prompt, ids_to_resolve, 1,
                                                 selection,
                                                 get_planet_name(cfg, app.planet_id)),
                                     disk, env)}})

-----------------------------------------------------------------------------
(* The workflow's specification: a registry, a record given as a file or
   pasted, and an operator who answers the dialogs as they like *)

\* Records: an unknown placement type with an unknown schematic, linked and
\* routed to a storage; an unknown placement type alone; two unknown
\* schematics; a record the Barren registry knows everything of; no record.
ResolveRecords ==
    {RawRecord(ListSection(<<RawPin(PyInt(500), PyInt(7)), RawPin(PyInt(2541), PyInt(4096))>>),
               ListSection(<<RawLink(PyInt(1), PyInt(2))>>),
               ListSection(<<RawRoute(NoPath, PyInt(1), PyInt(2), PyInt(7))>>)),
     RawRecord(ListSection(<<RawPin(PyInt(500), PyNone)>>),
               ListSection(<<>>), ListSection(<<>>)),
     RawRecord(ListSection(<<RawPin(PyInt(2541), PyInt(7)), RawPin(PyInt(2541), PyInt(2))>>),
               ListSection(<<RawLink(PyInt(2), PyInt(1))>>), ListSection(<<>>)),
     RawRecord(ListSection(<<RawPin(PyInt(2541), PyInt(4096))>>),
               ListSection(<<>>), ListSection(<<>>)),
     NotARecord}

\* the application before a record is given
Idle(origin) ==
    [origin |-> origin, file |-> origin = "file", prompt |-> "none", listed |-> {},
     planet_id |-> PyNone, rendered |-> NoGraph("idle"), first |-> NoGraph("idle"),
     closed |-> "none", chosen |-> {}, callbacks |-> 0]

\* main.py lines 399-404 and id_editor.py lines 40-52: what a combobox
\* offers, the names the registry holds, and one name the operator types
Offered(cfg, id_type) ==
    IF id_type = "commodity"
    THEN {"Ore"} \cup {cfg.commodities[i].name : i \in 1..Len(cfg.commodities)}
    ELSE {"Extractor", "Storage Facility"}
         \cup {IF cfg.pin_types[i].category = NoKey THEN "Unknown"
               ELSE cfg.pin_types[i].category : i \in 1..Len(cfg.pin_types)}

\* what the operator may leave in the comboboxes of the open dialog
Selections(cfg, app) ==
    [app.listed -> {NoSelection} \cup Offered(cfg, app.prompt)]

InitResolve ==
    /\ config \in ParseRegistries
    /\ data \in ResolveRecords
    /\ parsed = NoGraph("idle")
    /\ request = NoRequest
    /\ generated = NoRecord
    /\ query = NoQuery
    /\ answer = NoAnswer
    /\ ui \in {Idle("file"), Idle("paste")}
    /\ fs = [file |-> Original, dir |-> FALSE,
             backups |-> [t \in 0..MaxClock |-> NoFile],
             now |-> 0, trace |-> <<>>, logged |-> <<>>, raised |-> FALSE,
             saves |-> 0, streak |-> 0]
    /\ pc = "start"

\* load_selected_file / load_from_paste: the first parse of the record
Process(origin) ==
    /\ pc = "start"
    /\ ui.origin = origin
    /\ \E done \in {process_raw_data(data, config, ui)} :
          /\ parsed' = done.last_parsed
          /\ ui' = [done.app EXCEPT !.first = parse_pi_json(data, config)]
    /\ pc' = "processed"
    /\ UNCHANGED <<config, data, request, generated, fs, query, answer>>

LoadFile == Process("file")

Paste == Process("paste")

\* id_editor.py lines 122-124: cancel()
Cancel ==
    /\ ui.prompt # "none"
    /\ ui' = [ui EXCEPT !.prompt = "none", !.listed = {}, !.closed = "cancel",
                        !.chosen = {}, !.callbacks = 0]
    /\ pc' = "cancel"
    /\ UNCHANGED <<config, data, parsed, request, generated, fs, query, answer>>

\* the operator presses Apply
Apply ==
    /\ ui.prompt # "none"
    /\ \E selection \in Selections(config, ui), env \in SaveEnvs :
          \E done \in {apply(config, data, parsed, fs, ui, selection, env)} :
              /\ config' = done.config
              /\ fs' = done.disk
              /\ parsed' = done.last_parsed
              /\ ui' = done.app
    /\ pc' = "apply"
    /\ UNCHANGED <<data, request, generated, query, answer>>

NextResolve == LoadFile \/ Paste \/ Cancel \/ Apply

SpecResolve == InitResolve /\ [][NextResolve]_vars

-----------------------------------------------------------------------------
(* Claims about the Resolution Workflow, checked under SpecResolve *)

\* the last step parsed a record: the first parse, or the callback's re-parse
JustParsed ==
    /\ parsed.status = "ok"
    /\ pc = "processed" \/ (pc = "apply" /\ ui.callbacks = 1)

\* C23: a parse that leaves unresolved commodities opens the commodity
\* prompt, whatever placement types it leaves unresolved; the prompt of the
\* placement types is only ever open for a parse result whose set of
\* unresolved commodities is empty, and lists that result's unresolved
\* placement types.
C23_CommoditiesFirst ==
    /\ (JustParsed /\ parsed.unknown_commodity # {}) =>
          (ui.prompt = "commodity" /\ ui.listed = parsed.unknown_commodity)
    /\ ui.prompt = "pin_type" =>
          /\ parsed.status = "ok"
          /\ parsed.unknown_commodity = {}
          /\ ui.listed = parsed.unknown_pin_type

\* the first parse left both kinds unresolved, a later re-parse left only
\* placement types, and their prompt is open
C23_Witness ==
    /\ ui.first.unknown_commodity # {}
    /\ ui.first.unknown_pin_type # {}
    /\ pc = "apply"
    /\ ui.prompt = "pin_type"

\* the dialog that closed last wrote to the registry and called back
CalledBack == pc = "apply" /\ ui.callbacks = 1

\* nodes, connectivity edges and flow edges of two graphs agree in count,
\* type ids, positions and endpoints
SameShape(g, h) ==
    /\ Len(g.pins) = Len(h.pins)
    /\ \A i \in 1..Len(g.pins) :
          /\ g.pins[i].index = h.pins[i].index
          /\ g.pins[i].original_index = h.pins[i].original_index
          /\ g.pins[i].type_id = h.pins[i].type_id
          /\ g.pins[i].schematic_id = h.pins[i].schematic_id
    /\ Len(g.links) = Len(h.links)
    /\ \A i \in 1..Len(g.links) :
          g.links[i].source = h.links[i].source /\ g.links[i].target = h.links[i].target
    /\ Len(g.routes) = Len(h.routes)
    /\ \A i \in 1..Len(g.routes) :
          g.routes[i].source = h.routes[i].source /\ g.routes[i].target = h.routes[i].target

\* C24: after the dialog wrote to the registry and called back, the typed
\* graph the application holds is the parse of the original raw record under
\* the registry as it is now, and has the nodes, connectivity edges and flow
\* edges of the first parse, for file-loaded and for pasted records alike.
C24_ReparseOfOriginal ==
    CalledBack =>
        /\ parsed = parse_pi_json(data, config)
        /\ SameShape(parsed, ui.first)

\* the same, of the file-loaded records only
C24_FileLoaded == ui.origin = "file" => C24_ReparseOfOriginal

\* a re-parse of a file-loaded record with nodes and both kinds of edges
C24_FileWitness ==
    /\ CalledBack
    /\ ui.origin = "file"
    /\ Len(parsed.pins) = 2 /\ Len(parsed.links) = 1 /\ Len(parsed.routes) = 1
    /\ parsed.unknown_commodity # ui.first.unknown_commodity

\* the registry has an entry for the id in the table of the dialog's kind
Written(cfg, id_type, id) ==
    IF id_type = "commodity" THEN HasKey(cfg.commodities, Str(id))
    ELSE HasKey(cfg.pin_types, Str(id))

\* C25: a step that closes a dialog calls back at most once, and if it does,
\* the operator named at least one id, every named id has its entry in the
\* registry, and the save returned with the file holding that registry.  If
\* the operator cancelled or named nothing, registry, disk and graph are as
\* before and there was no callback; if the save raised there was none.
C25_CallbackAfterSave ==
    [][ui.prompt # "none" =>
          /\ ui'.callbacks \in {0, 1}
          /\ ui'.callbacks = 1 =>
                /\ ui'.closed = "apply"
                /\ ui'.chosen # {}
                /\ \A id \in ui'.chosen : Written(config', ui.prompt, id)
                /\ ~fs'.raised
                /\ fs'.file = Persisted(config')
          /\ (ui'.closed = "cancel" \/ ui'.chosen = {}) =>
                /\ ui'.callbacks = 0
                /\ config' = config /\ fs' = fs /\ parsed' = parsed
          /\ fs'.raised => ui'.callbacks = 0
       ]_vars

\* a dialog in which two ids were named called back
C25_Witness ==
    /\ CalledBack
    /\ Cardinality(ui.chosen) = 2
    /\ ~fs.raised

\* a dialog in which an id was named ended in a save that raised
C25_SaveFailed ==
    /\ pc = "apply"
    /\ ui.chosen # {}
    /\ fs.raised
    /\ ui.callbacks = 0

-----------------------------------------------------------------------------
(* The numbering of the nodes, checked under SpecParse *)

\* the placement entries before one-based position i are all records
NoneSkippedBefore(i) == \A h \in 1..(i - 1) : AsList(data.P)[h].isdict

\* C26: in a graph the parser returns, the node at list position j (counted
\* from zero) has internal index j, so the indices are 0..n-1 without gap or
\* repeat; the original positions grow strictly along the list; and a
\* node's index is at most its original position minus one, equal exactly
\* when no entry before it was skipped.
C26_ContiguousIndex ==
    Returned =>
        /\ \A j \in 1..Len(parsed.pins) : parsed.pins[j].index = j - 1
        /\ \A j \in 1..Len(parsed.pins), h \in 1..Len(parsed.pins) :
              j < h => parsed.pins[j].original_index < parsed.pins[h].original_index
        /\ \A j \in 1..Len(parsed.pins) :
              LET node == parsed.pins[j]
              IN  /\ node.original_index \in 1..Len(AsList(data.P))
                  /\ node.index <= node.original_index - 1
                  /\ node.index = node.original_index - 1
                        <=> NoneSkippedBefore(node.original_index)

\* a node whose entry follows a skipped one
C26_Witness ==
    /\ Returned
    /\ Len(parsed.pins) = 1
    /\ parsed.pins[1].original_index = 2
    /\ parsed.pins[1].index = 0

-----------------------------------------------------------------------------
(* The connectivity of a generated record, checked under SpecGen *)

\* the nodes one connectivity edge away from a node of the set
Neighbours(nodes) ==
    {GenL[k].D.n : k \in {h \in 1..Len(GenL) : GenL[h].S.n \in nodes}}
    \cup {GenL[k].S.n : k \in {h \in 1..Len(GenL) : GenL[h].D.n \in nodes}}

\* the nodes that a path of connectivity edges joins to a node of the set
RECURSIVE ReachableFrom(_)
ReachableFrom(nodes) ==
    LET next == nodes \cup Neighbours(nodes)
    IN  IF next = nodes THEN nodes ELSE ReachableFrom(next)

\* C27: in a generated record with N production nodes the connectivity
\* edges are a spanning tree of the N + 2 nodes: N + 1 edges, every end a
\* one-based position of P, no edge from a node to itself, no two edges
\* between the same pair of nodes, and every node joined to storage.
C27_SpanningTree ==
    GaveRecord =>
        /\ Cardinality(ProductionNodes) \in 0..21
        /\ Len(GenL) = Cardinality(ProductionNodes) + 1
        /\ \A k \in 1..Len(GenL) :
              /\ GenL[k].S.k = "int" /\ GenL[k].S.n \in 1..Len(GenP)
              /\ GenL[k].D.k = "int" /\ GenL[k].D.n \in 1..Len(GenP)
              /\ GenL[k].S # GenL[k].D
        /\ \A k \in 1..Len(GenL), h \in 1..Len(GenL) :
              k # h => {GenL[k].S, GenL[k].D} # {GenL[h].S, GenL[h].D}
        /\ ReachableFrom({StoragePos}) = 1..Len(GenP)

\* a record with all 21 slots taken, and so with full and chained rows
C27_Witness ==
    /\ GaveRecord
    /\ Cardinality(ProductionNodes) = 21
    /\ Len(GenL) = 22

\* a record without production nodes: storage and launchpad, one edge
C27_Empty ==
    /\ GaveRecord
    /\ ProductionNodes = {}
    /\ Len(GenL) = 1

-----------------------------------------------------------------------------
(* The backups as a history of the file, checked under SpecRegistry *)

\* the contents the backup files hold
BackedUp(disk) == {disk.backups[t] : t \in DOMAIN disk.backups} \ {NoFile}

\* Versions of the file known to have been overwritten by a save when the
\* step is done: the one the step overwrites, and the backups that differ
\* from the file (a backup is a copy of the file, and only saves write it)
Overwritten ==
    (IF fs'.file # fs.file /\ fs.file # NoFile THEN {fs.file} ELSE {})
    \cup (BackedUp(fs) \ {fs.file})

\* C28: after every save, each version of the file that a save has
\* overwritten is the content of some backup: the save keeps the version it
\* overwrites, and loses none that an earlier save kept, whether or not the
\* two fall into the same second.
C28_VersionsKept ==
    [][SaveStep => Overwritten \subseteq BackedUp(fs')]_vars

\* the same, of the saves whose backup copy was made
C28_WhenCopied ==
    [][(SaveStep /\ Logged(fs', "Configuration backup created")) =>
          Overwritten \subseteq BackedUp(fs')]_vars

\* the same, of the saves whose copy was made in a second without backup
C28_OnePerSecond ==
    [][(SaveStep /\ Logged(fs', "Configuration backup created")
                 /\ fs.backups[fs.now] = NoFile) =>
          Overwritten \subseteq BackedUp(fs')]_vars

-----------------------------------------------------------------------------
(* The workflow with an operator who answers every dialog: a file-loaded
   record, dialogs that are either cancelled or applied with a name in every
   row, and saves that do not raise.  A modal dialog stays open until the
   operator closes it; that the operator does close it is the fairness
   condition. *)

InitAnswered == InitResolve /\ ui.origin = "file"

\* every row named, and a save whose directory, open and dump succeed
ApplyAll ==
    /\ ui.prompt # "none"
    /\ \E selection \in Selections(config, ui), env \in SaveEnvs :
          /\ \A id \in ui.listed : selection[id] # NoSelection
          /\ env.makedirs /\ env.open /\ env.dump
          /\ \E done \in {apply(config, data, parsed, fs, ui, selection, env)} :
                /\ config' = done.config
                /\ fs' = done.disk
                /\ parsed' = done.last_parsed
                /\ ui' = done.app
    /\ pc' = "apply"
    /\ UNCHANGED <<data, request, generated, query, answer>>

NextAnswered == LoadFile \/ Cancel \/ ApplyAll

SpecAnswered ==
    InitAnswered /\ [][NextAnswered]_vars /\ WF_vars(Cancel \/ ApplyAll)

\* no dialog is open, nothing is unresolved and the plot shows the graph
Resolved ==
    /\ ui.prompt = "none"
    /\ parsed.status = "ok"
    /\ parsed.unknown_commodity = {} /\ parsed.unknown_pin_type = {}
    /\ ui.rendered = parsed

\* C29: once a dialog is open for a file-loaded record, an operator who
\* names every listed id at every prompt, with saves that succeed, gets
\* after finitely many prompts to a state without open dialog, with both
\* unresolved sets empty and the graph rendered (a run ends otherwise only
\* by a cancel); and cancelling the commodity prompt opens no other prompt.
C29_LoopTerminates ==
    /\ (ui.prompt # "none") ~> (Resolved \/ (ui.prompt = "none" /\ ui.closed = "cancel"))
    /\ [][(ui.prompt = "commodity" /\ ui'.closed = "cancel") => ui'.prompt = "none"]_vars
    /\ [](ui.closed = "cancel" => ui.prompt = "none")

\* the second half of C29 alone: a cancelled dialog is the last one
C29_CancelEnds ==
    /\ [][(ui.prompt = "commodity" /\ ui'.closed = "cancel") => ui'.prompt = "none"]_vars
    /\ [](ui.closed = "cancel" => ui.prompt = "none")

-----------------------------------------------------------------------------
(* The planet of a generated record, checked under SpecGen *)

\* the planet name is one the search of the factory types takes as specific
Specific(planet_name) == planet_name \notin {"Unknown", "Generic"}

\* C30: in a generated record Pln is the planet the factory types were
\* searched for: if the search used a specific planet name, the planet-type
\* table has that name and Pln is its id; otherwise Pln is the fallback id.
C30_PlanetOfFactories ==
    GaveRecord =>
        IF Specific(InferredPlanet)
        THEN /\ planet_types_rev(config, InferredPlanet) # ""
             /\ generated.record.Pln = PyInt(IntOf(planet_types_rev(config, InferredPlanet)))
        ELSE generated.record.Pln = PyInt(DEFAULT_PLANET_ID)

\* the same, of the registries whose planet-type table names the planet
C30_WhenPlanetListed ==
    (GaveRecord /\ Specific(InferredPlanet)
                /\ planet_types_rev(config, InferredPlanet) # "") =>
        generated.record.Pln = PyInt(IntOf(planet_types_rev(config, InferredPlanet)))

\* a record generated for a specific planet that the table lists
C30_ListedReached ==
    /\ GaveRecord
    /\ Specific(InferredPlanet)
    /\ planet_types_rev(config, InferredPlanet) # ""
    /\ ProductionNodes # {}

=============================================================================
